---- MODULE Spec2Model ----
(***************************************************************************)
(* State-machine model of the image-generation provider layer              *)
(* (api_provider.py), its facade (ideogram_generator.py) and the           *)
(* vectorization client (recraft_vectorizer.py).                           *)
(*                                                                         *)
(* Python values are records tagged by their type: [t |-> "None"],         *)
(* [t |-> "str", v |-> <<characters>>], [t |-> "list", v |-> <<items>>],   *)
(* [t |-> "dict", v |-> function], ...  A string is the sequence of its    *)
(* characters, so that lower(), strip(), startswith() and endswith() are   *)
(* computed character by character.  Progress fractions are kept in        *)
(* tenths (0.2 is 2, 1.0 is 10).  An error message is the sequence of its  *)
(* words, with "{}" where the f-string interpolates a value.               *)
(***************************************************************************)
EXTENDS Integers, Sequences, FiniteSets, TLC

(***************************************************************************)
(* Bounds of the model.                                                    *)
(***************************************************************************)
\* Queue updates the Fal.ai client delivers during one subscribe() call.
MaxUpdates == 2

(***************************************************************************)
(* Python values and the str methods the code uses.                        *)
(***************************************************************************)
PyNone == [t |-> "None"]
PyStr(s) == [t |-> "str", v |-> s]
PyList(l) == [t |-> "list", v |-> l]
PyInt(n) == [t |-> "int", v |-> n]

IsStr(x) == x.t = "str"

\* Python truthiness of a value: None, "", [] and 0 are falsy.
Truthy(x) ==
    CASE x.t = "None" -> FALSE
      [] x.t = "str" -> x.v # <<>>
      [] x.t = "list" -> x.v # <<>>
      [] x.t = "int" -> x.v # 0
      [] OTHER -> TRUE

UpperCase == <<"A", "B", "C", "D", "E", "F", "G", "H", "I", "J", "K", "L", "M",
               "N", "O", "P", "Q", "R", "S", "T", "U", "V", "W", "X", "Y", "Z">>
LowerCase == <<"a", "b", "c", "d", "e", "f", "g", "h", "i", "j", "k", "l", "m",
               "n", "o", "p", "q", "r", "s", "t", "u", "v", "w", "x", "y", "z">>

LowerChar(c) ==
    IF \E i \in DOMAIN UpperCase : UpperCase[i] = c
    THEN LowerCase[CHOOSE i \in DOMAIN UpperCase : UpperCase[i] = c]
    ELSE c

\* str.lower()
Lower(s) == [i \in DOMAIN s |-> LowerChar(s[i])]

Whitespace == {" ", "\t", "\n", "\r"}

RECURSIVE LStrip(_)
LStrip(s) == IF s # <<>> /\ Head(s) \in Whitespace THEN LStrip(Tail(s)) ELSE s

RECURSIVE RStrip(_)
RStrip(s) ==
    IF s # <<>> /\ s[Len(s)] \in Whitespace
    THEN RStrip(SubSeq(s, 1, Len(s) - 1))
    ELSE s

\* str.strip()
Strip(s) == RStrip(LStrip(s))

\* str.startswith(p), str.endswith(p)
StartsWith(s, p) == Len(s) >= Len(p) /\ SubSeq(s, 1, Len(p)) = p
EndsWith(s, p) == Len(s) >= Len(p) /\ SubSeq(s, Len(s) - Len(p) + 1, Len(s)) = p

Range(f) == {f[i] : i \in DOMAIN f}

(***************************************************************************)
(* String literals of the model.                                           *)
(***************************************************************************)
s_replicate == <<"r", "e", "p", "l", "i", "c", "a", "t", "e">>
s_Replicate == <<"R", "e", "p", "l", "i", "c", "a", "t", "e">>
s_fal == <<"f", "a", "l">>
s_FAL == <<"F", "A", "L">>
s_fal_sp == <<" ", "f", "a", "l">>
s_openai == <<"o", "p", "e", "n", "a", "i">>
s_OpenAI == <<"O", "p", "e", "n", "A", "I">>
s_openai_gpt == <<"o", "p", "e", "n", "a", "i", " ", "(", "g", "p", "t", "-",
                  "i", "m", "a", "g", "e", "-", "1", ")">>
s_OpenAI_GPT == <<"O", "p", "e", "n", "A", "I", " ", "(", "G", "P", "T", "-",
                  "I", "m", "a", "g", "e", "-", "1", ")">>
s_Fal_ai == <<"F", "a", "l", ".", "a", "i">>
s_dalle == <<"d", "a", "l", "l", "e">>
s_key == <<"s", "k", "-", "1">>
s_blank == <<" ", " ">>
s_ws == <<" ", "\t">>
s_prompt == <<"a", " ", "r", "e", "d", " ", "c", "i", "r", "c", "l", "e">>
s_auto == <<"a", "u", "t", "o">>
s_general == <<"g", "e", "n", "e", "r", "a", "l">>
s_realistic == <<"r", "e", "a", "l", "i", "s", "t", "i", "c">>
s_design == <<"d", "e", "s", "i", "g", "n">>
s_none == <<"n", "o", "n", "e">>
s_Auto == <<"A", "u", "t", "o">>
s_General == <<"G", "e", "n", "e", "r", "a", "l">>
s_Realistic == <<"R", "e", "a", "l", "i", "s", "t", "i", "c">>
s_Design == <<"D", "e", "s", "i", "g", "n">>
s_None == <<"N", "o", "n", "e">>
s_AUTO == <<"A", "U", "T", "O">>
s_GENERAL == <<"G", "E", "N", "E", "R", "A", "L">>
s_REALISTIC == <<"R", "E", "A", "L", "I", "S", "T", "I", "C">>
s_DESIGN == <<"D", "E", "S", "I", "G", "N">>
s_transparent == <<"t", "r", "a", "n", "s", "p", "a", "r", "e", "n", "t">>
s_opaque == <<"o", "p", "a", "q", "u", "e">>
s_high == <<"h", "i", "g", "h">>
s_medium == <<"m", "e", "d", "i", "u", "m">>
s_low == <<"l", "o", "w">>
s_on == <<"o", "n">>
s_On == <<"O", "n">>
s_Off == <<"O", "f", "f">>
s_off == <<"o", "f", "f">>
s_High == <<"H", "i", "g", "h">>
s_Transparent == <<"T", "r", "a", "n", "s", "p", "a", "r", "e", "n", "t">>
s_sepia == <<"s", "e", "p", "i", "a">>
s_1_1 == <<"1", ":", "1">>
s_16_9 == <<"1", "6", ":", "9">>
s_9_16 == <<"9", ":", "1", "6">>
s_4_3 == <<"4", ":", "3">>
s_3_4 == <<"3", ":", "4">>
s_3_2 == <<"3", ":", "2">>
s_2_3 == <<"2", ":", "3">>
s_5_4 == <<"5", ":", "4">>
s_square_hd == <<"s", "q", "u", "a", "r", "e", "_", "h", "d">>
s_landscape_16_9 == <<"l", "a", "n", "d", "s", "c", "a", "p", "e", "_", "1", "6", "_", "9">>
s_portrait_16_9 == <<"p", "o", "r", "t", "r", "a", "i", "t", "_", "1", "6", "_", "9">>
s_landscape_4_3 == <<"l", "a", "n", "d", "s", "c", "a", "p", "e", "_", "4", "_", "3">>
s_portrait_4_3 == <<"p", "o", "r", "t", "r", "a", "i", "t", "_", "4", "_", "3">>
s_png == <<"p", "n", "g">>
s_http == <<"h", "t", "t", "p", ":", "/", "/">>
s_https == <<"h", "t", "t", "p", "s", ":", "/", "/">>
s_url1 == <<"h", "t", "t", "p", "s", ":", "/", "/", "r", "/", "1">>
s_url2 == <<"h", "t", "t", "p", ":", "/", "/", "r", "/", "2">>
s_ftp == <<"f", "t", "p", ":", "/", "/", "r", "/", "3">>

(***************************************************************************)
(* Credentials.                                                            *)
(***************************************************************************)
EnvKeys == {"REPLICATE_API_TOKEN", "FAL_KEY", "OPENAI_API_KEY", "RECRAFT_API_TOKEN"}

\* What os.getenv can give for a credential: unset, empty, blank, a key.
CredValues == {PyNone, PyStr(<<>>), PyStr(s_blank), PyStr(s_key)}

Providers == {"Replicate", "Fal.ai", "OpenAI"}

VARIABLES
    environ,            \* os.environ restricted to the four credential keys
    REPLICATE_API_KEY,  \* api_provider.py module globals, read at import
    FAL_API_KEY,
    OPENAI_API_KEY,
    api_key,            \* recraft_vectorizer.py module global
    call,               \* the operation in progress (or last finished) and its arguments
    pc,                 \* position of the operation: "idle", a suspension point, "done"
    netlog,             \* network requests issued by the operation, in order
    sinklog,            \* invocations of the progress sink, in order: <<fraction, message>>
    updates,            \* queue updates delivered so far by the Fal.ai client
    disk,               \* the output location of download_svg: parent directory and file
    result              \* outcome of the operation

vars == <<environ, REPLICATE_API_KEY, FAL_API_KEY, OPENAI_API_KEY, api_key,
          call, pc, netlog, sinklog, updates, disk, result>>

config == <<environ, REPLICATE_API_KEY, FAL_API_KEY, OPENAI_API_KEY, api_key>>

\* self.api_key of an adapter instance (set in __init__ from the module global).
ApiKey(p) ==
    CASE p = "Replicate" -> REPLICATE_API_KEY
      [] p = "Fal.ai" -> FAL_API_KEY
      [] p = "OpenAI" -> OPENAI_API_KEY

\* The mutant drops the strip(): a blank credential counts as configured.
is_configured_nostrip(p) == ApiKey(p).t # "None" /\ Len(ApiKey(p).v) > 0

\* return self.api_key is not None and len(self.api_key.strip()) > 0
is_configured(p) == ApiKey(p).t # "None" /\ Len(Strip(ApiKey(p).v)) > 0

(***************************************************************************)
(* Outcomes.                                                               *)
(***************************************************************************)
NoCause == [exc |-> "none"]
NoResult == [kind |-> "none"]
Return(v) == [kind |-> "return", val |-> v]
\* raise exc(msg) while handling `cause` (the {e} the message interpolates).
Raise(exc, msg, args, cause) ==
    [kind |-> "raise", exc |-> exc, msg |-> msg, args |-> args, cause |-> cause]
\* An exception raised by a library the code calls, with no message of this code.
LibError(exc) == [kind |-> "raise", exc |-> exc, msg |-> <<>>, args |-> <<>>, cause |-> NoCause]

NoProviderMsg ==
    <<"No", "API", "providers", "are", "properly", "configured.",
      "Please", "set", "either", "OPENAI_API_KEY", "REPLICATE_API_TOKEN", "or",
      "FAL_KEY", "environment", "variables.">>

(***************************************************************************)
(* Provider selector.                                                      *)
(***************************************************************************)
\* The mutant raises as soon as the named provider is not configured.
get_provider_strict(provider_name) ==
    LET is(n) == Truthy(provider_name) /\ Lower(provider_name.v) = n
        pick(p) == IF is_configured(p) THEN Return(p)
                   ELSE Raise("ValueError", NoProviderMsg, <<>>, NoCause)
    IN  CASE is(s_replicate) -> pick("Replicate")
          [] is(s_fal) -> pick("Fal.ai")
          [] is(s_openai) \/ is(s_openai_gpt) -> pick("OpenAI")
          [] OTHER ->
               IF is_configured("OpenAI") THEN Return("OpenAI")
               ELSE IF is_configured("Replicate") THEN Return("Replicate")
               ELSE IF is_configured("Fal.ai") THEN Return("Fal.ai")
               ELSE Raise("ValueError", NoProviderMsg, <<>>, NoCause)

\* The mutant defaults to Replicate when no adapter is configured.
get_provider_default(provider_name) ==
    LET named(n, p) == Truthy(provider_name) /\ Lower(provider_name.v) = n /\ is_configured(p)
    IN  CASE named(s_replicate, "Replicate") -> Return("Replicate")
          [] named(s_fal, "Fal.ai") -> Return("Fal.ai")
          [] named(s_openai, "OpenAI") \/ named(s_openai_gpt, "OpenAI") -> Return("OpenAI")
          [] OTHER ->
               IF is_configured("OpenAI") THEN Return("OpenAI")
               ELSE IF is_configured("Replicate") THEN Return("Replicate")
               ELSE IF is_configured("Fal.ai") THEN Return("Fal.ai")
               ELSE Return("Replicate")

\* get_provider(provider_name): the adapter it returns, or the error it raises.
get_provider(provider_name) ==
    LET named(n, p) == Truthy(provider_name) /\ Lower(provider_name.v) = n /\ is_configured(p)
    IN  CASE named(s_replicate, "Replicate") -> Return("Replicate")
          [] named(s_fal, "Fal.ai") -> Return("Fal.ai")
          [] named(s_openai, "OpenAI") \/ named(s_openai_gpt, "OpenAI") -> Return("OpenAI")
          [] OTHER ->
               IF is_configured("OpenAI") THEN Return("OpenAI")
               ELSE IF is_configured("Replicate") THEN Return("Replicate")
               ELSE IF is_configured("Fal.ai") THEN Return("Fal.ai")
               ELSE Raise("ValueError", NoProviderMsg, <<>>, NoCause)

(***************************************************************************)
(* Parameter mapping of the adapters.                                      *)
(***************************************************************************)
\* dict.get(key, default) on a table of <<key, value>> pairs.
DictGet(table, key, default) ==
    IF \E i \in DOMAIN table : table[i][1] = key
    THEN table[CHOOSE i \in DOMAIN table : table[i][1] = key][2]
    ELSE default

\* style_type.lower() if style_type else "auto"
StyleKey(style_type) == IF Truthy(style_type) THEN Lower(style_type.v) ELSE s_auto

\* The mutant passes the caller's style through unmapped.
map_style_passthrough(style_type) == IF Truthy(style_type) THEN style_type.v ELSE s_auto

\* ReplicateProvider._map_style_type_for_replicate
map_style_type_for_replicate(style_type) ==
    DictGet(<< <<s_auto, s_Auto>>, <<s_general, s_General>>, <<s_realistic, s_Realistic>>,
               <<s_design, s_Design>>, <<s_none, s_None>> >>,
            StyleKey(style_type), s_Auto)

\* FalProvider._map_aspect_ratio_to_image_size
map_aspect_ratio_to_image_size(aspect_ratio) ==
    IF IsStr(aspect_ratio)
    THEN DictGet(<< <<s_1_1, s_square_hd>>, <<s_16_9, s_landscape_16_9>>,
                    <<s_9_16, s_portrait_16_9>>, <<s_4_3, s_landscape_4_3>>,
                    <<s_3_4, s_portrait_4_3>> >>,
                 aspect_ratio.v, s_square_hd)
    ELSE s_square_hd

\* The mutant expands the prompt for every option but off.
map_magic_prompt_to_expand_prompt_not_off(magic_prompt_option) ==
    Lower(magic_prompt_option.v) # s_off

\* FalProvider._map_magic_prompt_to_expand_prompt (the caller passes a str)
map_magic_prompt_to_expand_prompt(magic_prompt_option) ==
    Lower(magic_prompt_option.v) \in {s_auto, s_on}

\* FalProvider._map_style_type_for_fal
map_style_type_for_fal(style_type) ==
    DictGet(<< <<s_auto, s_AUTO>>, <<s_general, s_GENERAL>>, <<s_realistic, s_REALISTIC>>,
               <<s_design, s_DESIGN>>, <<s_none, s_AUTO>> >>,
            StyleKey(style_type), s_AUTO)

\* The mutant's table has the entries 4:3 and 3:4 as well.
map_aspect_ratio_to_size_4_3(aspect_ratio) ==
    LET key == IF IsStr(aspect_ratio) THEN Lower(aspect_ratio.v) ELSE <<>>
    IN  DictGet(<< <<s_1_1, [t |-> "tuple", v |-> <<1024, 1024>>]>>,
                   <<s_3_2, [t |-> "tuple", v |-> <<1536, 1024>>]>>,
                   <<s_4_3, [t |-> "tuple", v |-> <<1536, 1024>>]>>,
                   <<s_2_3, [t |-> "tuple", v |-> <<1024, 1536>>]>>,
                   <<s_3_4, [t |-> "tuple", v |-> <<1024, 1536>>]>>,
                   <<s_auto, PyNone>> >>,
                key, PyNone)

\* OpenAIProvider._map_aspect_ratio_to_size: a (width, height) tuple, or None.
map_aspect_ratio_to_size(aspect_ratio) ==
    LET key == IF IsStr(aspect_ratio) THEN Lower(aspect_ratio.v) ELSE <<>>
    IN  DictGet(<< <<s_1_1, [t |-> "tuple", v |-> <<1024, 1024>>]>>,
                   <<s_3_2, [t |-> "tuple", v |-> <<1536, 1024>>]>>,
                   <<s_2_3, [t |-> "tuple", v |-> <<1024, 1536>>]>>,
                   <<s_auto, PyNone>> >>,
                key, PyNone)

\* The mutant's table has no entry for "none".
get_gpt_image_background_nocompat(style_type) ==
    DictGet(<< <<s_auto, s_auto>>, <<s_transparent, s_transparent>>,
               <<s_opaque, s_opaque>> >>,
            StyleKey(style_type), s_auto)

\* OpenAIProvider._get_gpt_image_background
get_gpt_image_background(style_type) ==
    DictGet(<< <<s_auto, s_auto>>, <<s_transparent, s_transparent>>,
               <<s_opaque, s_opaque>>, <<s_none, s_transparent>> >>,
            StyleKey(style_type), s_auto)

\* OpenAIProvider._get_gpt_image_output_format
get_gpt_image_output_format(background) ==
    IF background = s_transparent THEN s_png ELSE s_png

\* The mutant's table reads the option as a switch: on is high, off is medium.
map_magic_prompt_to_quality_switch(magic_prompt_option) ==
    DictGet(<< <<s_auto, s_auto>>, <<s_on, s_high>>, <<s_off, s_medium>> >>,
            IF Truthy(magic_prompt_option) THEN Lower(magic_prompt_option.v) ELSE s_auto,
            s_auto)

\* OpenAIProvider._map_magic_prompt_to_quality
map_magic_prompt_to_quality(magic_prompt_option) ==
    DictGet(<< <<s_auto, s_auto>>, <<s_high, s_high>>, <<s_medium, s_medium>>,
               <<s_low, s_low>> >>,
            IF Truthy(magic_prompt_option) THEN Lower(magic_prompt_option.v) ELSE s_auto,
            s_auto)

(***************************************************************************)
(* The progress sink.                                                      *)
(***************************************************************************)
Sink(behaviour) == [t |-> "function", behaviour |-> behaviour]

\* progress is not None and hasattr(progress, "__call__")
Callable(progress) == progress.t = "function"

\* Whether an invocation of the sink raises (an Exception): never, always,
\* or on some invocations only.
SinkRaises(progress) ==
    IF ~Callable(progress) THEN {FALSE}
    ELSE CASE progress.behaviour = "ok" -> {FALSE}
           [] progress.behaviour = "raises" -> {TRUE}
           [] progress.behaviour = "flaky" -> {TRUE, FALSE}

RaiseChoices(progress) == {rs \in [1..3 -> BOOLEAN] : \A i \in 1..3 : rs[i] \in SinkRaises(progress)}

\* The mutant has no try/except around progress(...): what the sink raises escapes.
ProgressBlockEscapes_nocatch(raised) == raised

\* try: progress(...)  except Exception as e: logger.warning(...)
\* Whether the exception of the invocation leaves the block.
ProgressBlockEscapes(raised) == IF raised THEN FALSE ELSE FALSE

\* A run of consecutive "Update progress if provided" blocks: `items` are the
\* <<fraction, message>> pairs in order, rs[i] tells whether invocation i raises.
\* Gives the sink's log afterwards and whether an exception escaped.
Notify(progress, log, items, rs) ==
    IF ~Callable(progress) THEN [log |-> log, escaped |-> FALSE]
    ELSE LET esc == {i \in DOMAIN items : ProgressBlockEscapes(rs[i])}
             k == IF esc = {} THEN Len(items)
                  ELSE CHOOSE i \in esc : \A j \in esc : i <= j
         IN  [log |-> log \o SubSeq(items, 1, k), escaped |-> esc # {}]

SinkError == LibError("SinkError")

(***************************************************************************)
(* HTTP and image decoding.                                                *)
(***************************************************************************)
s_ct_png == <<"i", "m", "a", "g", "e", "/", "p", "n", "g">>
s_ct_html == <<"t", "e", "x", "t", "/", "h", "t", "m", "l">>
s_ct_json == <<"a", "p", "p", "l", "i", "c", "a", "t", "i", "o", "n", "/", "j", "s", "o", "n">>
s_ct_svg == <<"i", "m", "a", "g", "e", "/", "s", "v", "g", "+", "x", "m", "l">>
s_ct_plain == <<"t", "e", "x", "t", "/", "p", "l", "a", "i", "n">>

\* A response of requests.get/post, or the transport exception it raises.
Response(status, ctype, content) ==
    [exc |-> "none", status |-> status, ctype |-> ctype, content |-> content]
TransportError(exc) == [exc |-> exc, status |-> 0, ctype |-> <<>>, content |-> <<>>]

\* response.raise_for_status(): HTTPError for 4xx and 5xx.
RaiseForStatus(resp) == resp.status >= 400 /\ resp.status < 600

\* The exception requests.get(url) raises before any network traffic, if any.
IsHttpUrl(url) == IsStr(url) /\ (StartsWith(url.v, s_http) \/ StartsWith(url.v, s_https))

\* What requests.get raises for a URL it cannot send to: MissingSchema when
\* the URL has no scheme (None and "" included), InvalidSchema otherwise.
UrlFailure(url) ==
    IF IsStr(url) /\ \E i \in DOMAIN url.v : url.v[i] = ":"
    THEN LibError("requests.exceptions.InvalidSchema")
    ELSE LibError("requests.exceptions.MissingSchema")

PngBytes == <<137, 80, 78, 71, 1>>
PngBytes2 == <<137, 80, 78, 71, 2>>
HtmlBytes == <<60, 104, 116>>

\* Image.open(BytesIO(content)): the decoded image, or UnidentifiedImageError.
\* The PNG signature is abbreviated to its first four bytes.
ImageOpen(content) ==
    IF Len(content) >= 4 /\ SubSeq(content, 1, 4) = <<137, 80, 78, 71>>
    THEN Return([t |-> "Image", format |-> "PNG", data |-> SubSeq(content, 5, Len(content))])
    ELSE LibError("PIL.UnidentifiedImageError")

\* What the image download can answer.
ImageResponses ==
    {Response(200, s_ct_png, PngBytes), Response(200, s_ct_png, PngBytes2),
     Response(200, s_ct_html, HtmlBytes), Response(404, s_ct_html, HtmlBytes),
     TransportError("requests.exceptions.ConnectionError"),
     TransportError("requests.exceptions.Timeout")}

\* A network request of the operation: its stage, what was sent, its status
\* ("pending" while in flight, then "ok", "failed", or "aborted" when a callback
\* of this code raised into it) and what came back.
Request(stage, req) == [stage |-> stage, req |-> req, status |-> "pending", reply |-> PyNone]

Settle(log, status, reply) ==
    [log EXCEPT ![Len(log)].status = status, ![Len(log)].reply = reply]

OkOrFailed(ok) == IF ok THEN "ok" ELSE "failed"

(***************************************************************************)
(* generate_image: the part common to the three adapters.                  *)
(***************************************************************************)
ConfigErrorMsg(p) ==
    CASE p = "Replicate" ->
           <<"Replicate", "API", "token", "not", "found.", "Make", "sure", "to", "set",
             "the", "REPLICATE_API_TOKEN", "environment", "variable.">>
      [] p = "Fal.ai" ->
           <<"Fal.ai", "API", "key", "not", "found.", "Make", "sure", "to", "set",
             "the", "FAL_KEY", "environment", "variable.">>
      [] p = "OpenAI" ->
           <<"OpenAI", "API", "key", "not", "found.", "Make", "sure", "to", "set",
             "the", "OPENAI_API_KEY", "environment", "variable.">>

PromptEmptyMsg ==
    <<"Prompt", "cannot", "be", "empty.", "Please", "provide", "a", "description",
      "for", "the", "image.">>

\* not prompt or not prompt.strip()
PromptBlank(prompt) == ~Truthy(prompt) \/ Strip(prompt.v) = <<>>

\* The mutant checks the prompt before the credential.
EntryCheck_prompt_first(p, prompt) ==
    IF PromptBlank(prompt) THEN Raise("ValueError", PromptEmptyMsg, <<>>, NoCause)
    ELSE IF ~is_configured(p) THEN Raise("ValueError", ConfigErrorMsg(p), <<>>, NoCause)
    ELSE NoResult

\* The mutant replaces a blank prompt by a default instead of rejecting it.
EntryCheck_default_prompt(p, prompt) ==
    IF ~is_configured(p) THEN Raise("ValueError", ConfigErrorMsg(p), <<>>, NoCause)
    ELSE NoResult

\* The two checks every generate_image starts with (Replicate 107-113,
\* Fal.ai 296-302, OpenAI 570-576): the error raised, or NoResult.
EntryCheck(p, prompt) ==
    IF ~is_configured(p) THEN Raise("ValueError", ConfigErrorMsg(p), <<>>, NoCause)
    ELSE IF PromptBlank(prompt) THEN Raise("ValueError", PromptEmptyMsg, <<>>, NoCause)
    ELSE NoResult

StartMsg(p) ==
    CASE p = "Replicate" -> "Starting image generation with Replicate..."
      [] p = "Fal.ai" -> "Starting image generation with Fal.ai..."
      [] p = "OpenAI" -> "Starting image generation with OpenAI GPT-Image-1..."

\* Where an operation stands after a step: finished with an outcome, or
\* suspended at a network call.
Done(res, net, log) == [pc |-> "done", result |-> res, netlog |-> net, sinklog |-> log]
Going(at, net, log) == [pc |-> at, result |-> NoResult, netlog |-> net, sinklog |-> log]

\* except Exception as e: logger.error(...); raise
Reraise(e) == e

(***************************************************************************)
(* The download of the generated image (requests.get + Image.open).        *)
(***************************************************************************)
\* `who` is <<>> for Replicate and <<"Fal.ai">> for Fal.ai.
FailedDownloadMsg(who) ==
    <<"Failed", "to", "download", "image", "from">> \o who \o <<"URL:", "{}.", "Error:", "{}">>
FailedProcessMsg(who) ==
    <<"Failed", "to", "process", "image", "from">> \o who \o <<"URL:", "{}.", "Error:", "{}">>

\* The exception requests.get raises for `resp`, or NoCause.
GetFailure(resp) ==
    IF resp.exc # "none" THEN LibError(resp.exc)
    ELSE IF RaiseForStatus(resp) THEN LibError("requests.exceptions.HTTPError")
    ELSE NoCause

\* The mutant returns None when the download fails.
FetchImage_none(who, image_url, resp) ==
    IF GetFailure(resp) # NoCause THEN Return(PyNone)
    ELSE IF ImageOpen(resp.content).kind = "raise"
    THEN Raise("ValueError", FailedProcessMsg(who), <<image_url>>, ImageOpen(resp.content))
    ELSE ImageOpen(resp.content)

\* try: response = requests.get(image_url, timeout=30); response.raise_for_status()
\*      image = Image.open(BytesIO(response.content))
\* except RequestException ... except Exception ...   (Replicate 169-180, Fal.ai 425-436)
FetchImage(who, image_url, resp) ==
    IF GetFailure(resp) # NoCause
    THEN Raise("ValueError", FailedDownloadMsg(who), <<image_url>>, GetFailure(resp))
    ELSE IF ImageOpen(resp.content).kind = "raise"
    THEN Raise("ValueError", FailedProcessMsg(who), <<image_url>>, ImageOpen(resp.content))
    ELSE ImageOpen(resp.content)

\* The mutant reports completion at one half.
CompleteItem_half == << <<5, "Image generation complete!">> >>

CompleteItem == << <<10, "Image generation complete!">> >>

(***************************************************************************)
(* Replicate adapter.                                                      *)
(***************************************************************************)
\* The mutant sends the option in lower case.
ReplicateRequest_lower(c) ==
    [model |-> "ideogram-ai/ideogram-v3-quality",
     prompt |-> c.prompt,
     aspect_ratio |-> c.aspect_ratio,
     magic_prompt_option |-> PyStr(Lower(c.magic_prompt_option.v)),
     style_type |-> PyStr(map_style_type_for_replicate(c.style_type)),
     seed |-> 0,
     use_file_output |-> FALSE]

\* The input of replicate_client.run (lines 137-147).
ReplicateRequest(c) ==
    [model |-> "ideogram-ai/ideogram-v3-quality",
     prompt |-> c.prompt,
     aspect_ratio |-> c.aspect_ratio,
     magic_prompt_option |-> c.magic_prompt_option,
     style_type |-> PyStr(map_style_type_for_replicate(c.style_type)),
     seed |-> 0,
     use_file_output |-> FALSE]

\* What replicate_client.run can do: raise, or return an output.
ReplicateOutcomes ==
    {[exc |-> "replicate.exceptions.ReplicateError", output |-> PyNone],
     [exc |-> "httpx.TimeoutException", output |-> PyNone]}
    \cup {[exc |-> "none", output |-> o] :
            o \in {PyList(<<PyStr(s_url1)>>), PyList(<<PyStr(s_url2), PyStr(s_url1)>>),
                   PyStr(s_url1), PyList(<<>>), PyStr(<<>>), PyNone, PyInt(7),
                   PyStr(s_ftp), PyList(<<PyNone>>)}}

\* ReplicateProvider.generate_image up to the backend call (lines 107-147).
Replicate_generate_image(c, rs) ==
    LET chk == EntryCheck("Replicate", c.prompt)
        n1 == Notify(c.progress, <<>>, << <<2, StartMsg("Replicate")>> >>, rs)
    IN  IF chk.kind = "raise" THEN Done(chk, <<>>, <<>>)
        ELSE IF n1.escaped THEN Done(SinkError, <<>>, n1.log)
        ELSE Going("replicate_run", <<Request("generation", ReplicateRequest(c))>>, n1.log)

NoMatch == [t |-> "nomatch"]

\* The mutant takes the last element of a list.
ReplicateImageUrl_last(output) ==
    IF Truthy(output) /\ output.t = "list" /\ Len(output.v) > 0 THEN output.v[Len(output.v)]
    ELSE IF Truthy(output) /\ IsStr(output) THEN output
    ELSE NoMatch

\* The URL the response normalization picks (lines 164-165, 192), NoMatch if
\* neither case applies.
ReplicateImageUrl(output) ==
    IF Truthy(output) /\ output.t = "list" /\ Len(output.v) > 0 THEN output.v[1]
    ELSE IF Truthy(output) /\ IsStr(output) THEN output
    ELSE NoMatch

\* ReplicateProvider.generate_image from the return of the backend call to
\* the image download (lines 137-170, 192-197, 218-225).
Replicate_run_returns(c, net, log, out, rs) ==
    LET n == Notify(c.progress, log, << <<7, "Image generated, downloading...">> >>, rs)
        image_url == ReplicateImageUrl(out.output)
        settled == Settle(net, OkOrFailed(out.exc = "none"), out)
    IN  IF out.exc # "none" THEN Done(Reraise(LibError(out.exc)), settled, log)
        ELSE IF n.escaped THEN Done(SinkError, settled, n.log)
        ELSE IF image_url = NoMatch
        THEN Done(Reraise(Raise("ValueError",
                                <<"Unexpected", "response", "format", "from", "Replicate",
                                  "API:", "{}">>, <<out.output>>, NoCause)),
                  settled, n.log)
        ELSE IF ~IsHttpUrl(image_url)
        THEN Done(Reraise(Raise("ValueError", FailedDownloadMsg(<<>>), <<image_url>>,
                                UrlFailure(image_url))),
                  settled, n.log)
        ELSE Going("replicate_get",
                   Append(settled, Request("image_download", [url |-> image_url])),
                   n.log)

\* The mutant reports completion before it looks at the download.
Replicate_get_returns_early(c, net, log, resp, rs) ==
    LET got == FetchImage(<<>>, net[Len(net)].req.url, resp)
        n == Notify(c.progress, log, CompleteItem, rs)
        settled == Settle(net, OkOrFailed(GetFailure(resp) = NoCause), resp)
    IN  IF got.kind = "raise" THEN Done(Reraise(got), settled, n.log)
        ELSE Done(got, settled, n.log)

\* ReplicateProvider.generate_image from the return of the download to its
\* own return (lines 170-189, 197-216, 223-225).
Replicate_get_returns(c, net, log, resp, rs) ==
    LET got == FetchImage(<<>>, net[Len(net)].req.url, resp)
        n == Notify(c.progress, log, CompleteItem, rs)
        settled == Settle(net, OkOrFailed(GetFailure(resp) = NoCause), resp)
    IN  IF got.kind = "raise" THEN Done(Reraise(got), settled, log)
        ELSE IF n.escaped THEN Done(Reraise(SinkError), settled, n.log)
        ELSE Done(got, settled, n.log)

(***************************************************************************)
(* Fal.ai adapter.                                                         *)
(***************************************************************************)
PyDict(f) == [t |-> "dict", v |-> f]

\* The arguments of fal_client.subscribe (lines 349-361).
FalRequest(c) ==
    [app |-> "fal-ai/ideogram/v3",
     prompt |-> c.prompt,
     rendering_speed |-> "BALANCED",
     style |-> PyStr(map_style_type_for_fal(c.style_type)),
     expand_prompt |-> map_magic_prompt_to_expand_prompt(c.magic_prompt_option),
     num_images |-> 1,
     image_size |-> PyStr(map_aspect_ratio_to_image_size(c.aspect_ratio)),
     with_logs |-> TRUE]

\* The mutant removes FAL_KEY from the environment once the adapter holds it.
FalSetEnviron_pop(env) == [env EXCEPT !["FAL_KEY"] = PyNone]

\* if "FAL_KEY" not in os.environ: os.environ["FAL_KEY"] = self.api_key
FalSetEnviron(env) ==
    IF env["FAL_KEY"] = PyNone THEN [env EXCEPT !["FAL_KEY"] = FAL_API_KEY] ELSE env

\* FalProvider.generate_image up to the backend call (lines 296-361).
Fal_generate_image(c, rs) ==
    LET chk == EntryCheck("Fal.ai", c.prompt)
        n1 == Notify(c.progress, <<>>, << <<2, StartMsg("Fal.ai")>> >>, rs)
        n2 == Notify(c.progress, n1.log,
                     << <<4, "Sending request to Fal.ai Ideogram v3...">> >>, Tail(rs))
    IN  IF chk.kind = "raise" THEN Done(chk, <<>>, <<>>)
        ELSE IF n1.escaped THEN Done(SinkError, <<>>, n1.log)
        ELSE IF ~c.installed
        THEN Done(Reraise(LibError("ImportError")), <<>>, n1.log)
        ELSE IF n2.escaped THEN Done(Reraise(SinkError), <<>>, n2.log)
        ELSE Going("fal_subscribe", <<Request("generation", FalRequest(c))>>, n2.log)

\* Queue updates the Fal.ai client can deliver to the callback.
LogEntries ==
    {PyDict([message |-> "step 1"]), PyDict([level |-> "INFO"]), PyInt(7)}

FalUpdates ==
    {[t |-> "Queued", logs |-> PyNone], [t |-> "InProgress", logs |-> PyNone],
     [t |-> "InProgress", logs |-> PyList(<<>>)]}
    \cup {[t |-> "InProgress", logs |-> PyList(<<e>>)] : e \in LogEntries}
    \cup {[t |-> "InProgress", logs |-> PyList(<<PyDict([message |-> "step 1"]), e>>)] :
            e \in {PyDict([message |-> "step 2"]), PyInt(7)}}

\* The body of `for log in update.logs` over the remaining entries: the
\* sink's log, whether a sink exception escaped, and the exception raised.
RECURSIVE ForwardLogs(_, _, _, _)
ForwardLogs(entries, progress, log, rs) ==
    IF entries = <<>> THEN [log |-> log, escaped |-> FALSE, raised |-> NoCause]
    ELSE LET e == Head(entries)
             n == Notify(progress, log, << <<5, e.v.message>> >>, rs)
         IN  IF e.t # "dict"
             THEN [log |-> log, escaped |-> FALSE, raised |-> LibError("TypeError")]
             ELSE IF "message" \notin DOMAIN e.v
             THEN ForwardLogs(Tail(entries), progress, log, Tail(rs))
             ELSE IF n.escaped THEN [log |-> n.log, escaped |-> TRUE, raised |-> NoCause]
             ELSE ForwardLogs(Tail(entries), progress, n.log, Tail(rs))

\* on_queue_update(update) (lines 331-342).
on_queue_update(update, progress, log, rs) ==
    IF update.t = "InProgress"
    THEN IF update.logs.t # "list"
         THEN [log |-> log, escaped |-> FALSE, raised |-> LibError("TypeError")]
         ELSE ForwardLogs(update.logs.v, progress, log, rs)
    ELSE [log |-> log, escaped |-> FALSE, raised |-> NoCause]

\* What fal_client.subscribe can do: raise, or return a result.
FalResults ==
    {PyDict([images |-> PyList(<<PyDict([url |-> PyStr(s_url1)])>>), seed |-> PyInt(1)]),
     PyDict([images |-> PyList(<<PyDict([content_type |-> PyStr(s_png)])>>),
             url |-> PyStr(s_url2)]),
     PyDict([images |-> PyList(<<>>), image |-> PyDict([url |-> PyStr(s_url2)])]),
     PyDict([image |-> PyDict([url |-> PyStr(s_url1)]), url |-> PyStr(s_url2)]),
     PyDict([image |-> PyStr(s_url1), url |-> PyStr(s_url2)]),
     PyDict([url |-> PyStr(s_url1)]),
     PyDict([url |-> PyStr(<<>>)]),
     PyDict([seed |-> PyInt(1)]),
     PyStr(s_url1), PyStr(s_ftp), PyNone}

FalOutcomes ==
    {[exc |-> "fal_client.FalClientError", result |-> PyNone],
     [exc |-> "httpx.ConnectError", result |-> PyNone]}
    \cup {[exc |-> "none", result |-> r] : r \in FalResults}

\* The URL the probing of the res finds (lines 391-415); falsy if none.
FalImageUrl(res) ==
    LET probed ==
          IF res.t = "dict"
          THEN IF "images" \in DOMAIN res.v /\ res.v.images.t = "list"
                  /\ Len(res.v.images.v) > 0
               THEN IF res.v.images.v[1].t = "dict"
                       /\ "url" \in DOMAIN res.v.images.v[1].v
                    THEN res.v.images.v[1].v.url
                    ELSE PyNone
               ELSE IF "image" \in DOMAIN res.v /\ res.v.image.t = "dict"
                       /\ "url" \in DOMAIN res.v.image.v
               THEN res.v.image.v.url
               ELSE IF "url" \in DOMAIN res.v THEN res.v.url
               ELSE PyNone
          ELSE PyNone
    IN  IF ~Truthy(probed) /\ IsStr(res) /\ IsHttpUrl(res) THEN res ELSE probed

\* except Exception as e: raise ValueError(f"Failed to process Fal.ai result: {e}. Response: {res}")
FalWrap(e, res) ==
    Raise("ValueError",
          <<"Failed", "to", "process", "Fal.ai", "result:", "{}.", "Response:", "{}">>,
          <<res>>, e)

\* FalProvider.generate_image from the return of subscribe to the image
\* download (lines 349-426, 447-453).
Fal_subscribe_returns(c, net, log, out, rs) ==
    LET n == Notify(c.progress, log,
                    << <<6, "Image generated by Ideogram v3...">>,
                       <<7, "Image generated, downloading...">>,
                       <<7, "Processing image from Ideogram v3...">> >>, rs)
        image_url == FalImageUrl(out.result)
        settled == Settle(net, OkOrFailed(out.exc = "none"), out)
    IN  IF out.exc # "none" THEN Done(Reraise(LibError(out.exc)), settled, log)
        ELSE IF n.escaped THEN Done(Reraise(SinkError), settled, n.log)
        ELSE IF ~Truthy(image_url)
        THEN Done(Reraise(FalWrap(Raise("ValueError",
                                        <<"Could", "not", "extract", "image", "URL", "from",
                                          "Fal.ai", "response:", "{}">>,
                                        <<out.result>>, NoCause),
                                  out.result)),
                  settled, n.log)
        ELSE IF ~IsHttpUrl(image_url)
        THEN Done(Reraise(FalWrap(Raise("ValueError", FailedDownloadMsg(<<"Fal.ai">>),
                                        <<image_url>>,
                                        UrlFailure(image_url)),
                                  out.result)),
                  settled, n.log)
        ELSE Going("fal_get",
                   Append(settled, Request("image_download", [url |-> image_url])), n.log)

\* FalProvider.generate_image from the return of the download to its own
\* return (lines 426-453).
Fal_get_returns(c, net, log, resp, rs) ==
    LET got == FetchImage(<<"Fal.ai">>, net[Len(net)].req.url, resp)
        n == Notify(c.progress, log, CompleteItem, rs)
        settled == Settle(net, OkOrFailed(GetFailure(resp) = NoCause), resp)
    IN  IF got.kind = "raise"
        THEN Done(Reraise(FalWrap(got, net[1].reply.result)), settled, log)
        ELSE IF n.escaped THEN Done(Reraise(SinkError), settled, n.log)
        ELSE Done(got, settled, n.log)

(***************************************************************************)
(* OpenAI adapter.                                                         *)
(***************************************************************************)
B64Chars ==
    UpperCase \o LowerCase \o <<"0", "1", "2", "3", "4", "5", "6", "7", "8", "9", "+", "/">>

B64Index(c) == (CHOOSE i \in DOMAIN B64Chars : B64Chars[i] = c) - 1

\* The bytes of the four-character groups of a padded base64 string.
RECURSIVE B64Groups(_)
B64Groups(s) ==
    IF s = <<>> THEN <<>>
    ELSE LET n == B64Index(s[1]) * 262144 + B64Index(s[2]) * 4096
                  + (IF s[3] = "=" THEN 0 ELSE B64Index(s[3]) * 64)
                  + (IF s[4] = "=" THEN 0 ELSE B64Index(s[4]))
             bytes == <<n \div 65536, (n \div 256) % 256, n % 256>>
             keep == IF s[3] = "=" THEN 1 ELSE IF s[4] = "=" THEN 2 ELSE 3
         IN  SubSeq(bytes, 1, keep) \o B64Groups(SubSeq(s, 5, Len(s)))

\* base64.b64decode(data): characters outside the alphabet are discarded,
\* then the length must be a multiple of four with "=" only as padding at the end.
B64Decode(data) ==
    LET clean == SelectSeq(data, LAMBDA ch : ch \in Range(B64Chars) \cup {"="})
        pads == {i \in DOMAIN clean : clean[i] = "="}
        wellPadded == /\ Len(clean) % 4 = 0
                      /\ \A i \in pads : i > Len(clean) - 2
                      /\ (Len(clean) - 1 \in pads => Len(clean) \in pads)
    IN  IF wellPadded THEN Return(B64Groups(clean)) ELSE LibError("binascii.Error")

s_b64_png == <<"i", "V", "B", "O", "R", "w", "E", "=">>
s_b64_html == <<"P", "G", "h", "0">>
s_b64_bad == <<"i", "V", "B", "O", "R">>

PySize(size) == [t |-> "str", fmt |-> "{}x{}", v |-> size]

\* The keyword arguments of client.images.generate (lines 602-637);
\* `size` is the (width, height) the ratio table gave.
OpenAIParams(c, size) ==
    [model |-> "gpt-image-1",
     prompt |-> c.prompt,
     quality |-> PyStr(map_magic_prompt_to_quality(c.magic_prompt_option)),
     background |-> PyStr(get_gpt_image_background(c.style_type)),
     n |-> 1,
     output_format |->
         PyStr(get_gpt_image_output_format(get_gpt_image_background(c.style_type))),
     size |-> IF size.t = "tuple" THEN PySize(size.v) ELSE PyStr(s_auto)]

\* OpenAIProvider.generate_image up to the backend call (lines 570-637).
\* `width, height = None` raises TypeError.
OpenAI_generate_image(c, rs) ==
    LET chk == EntryCheck("OpenAI", c.prompt)
        n1 == Notify(c.progress, <<>>, << <<2, StartMsg("OpenAI")>> >>, rs)
        n2 == Notify(c.progress, n1.log, << <<4, "Sending request to OpenAI...">> >>, Tail(rs))
        size == map_aspect_ratio_to_size(c.aspect_ratio)
    IN  IF chk.kind = "raise" THEN Done(chk, <<>>, <<>>)
        ELSE IF n1.escaped THEN Done(SinkError, <<>>, n1.log)
        ELSE IF ~c.installed
        THEN Done(Reraise(LibError("ImportError")), <<>>, n1.log)
        ELSE IF n2.escaped THEN Done(Reraise(SinkError), <<>>, n2.log)
        ELSE IF size.t # "tuple"
        THEN Done(Reraise(LibError("TypeError")), <<>>, n2.log)
        ELSE Going("openai_generate", <<Request("generation", OpenAIParams(c, size))>>, n2.log)

ImageItem(url, b64_json) == [t |-> "ImageItem", url |-> url, b64_json |-> b64_json]

\* What client.images.generate can do: raise, or return a response.
OpenAIResponses ==
    {[data |-> PyNone], [data |-> PyList(<<>>)]}
    \cup {[data |-> PyList(<<ImageItem(u, b)>>)] :
            u \in {PyNone, PyStr(<<>>), PyStr(s_url1)},
            b \in {PyNone, PyStr(s_b64_png), PyStr(s_b64_html), PyStr(s_b64_bad)}}

OpenAIOutcomes ==
    {[exc |-> "openai.AuthenticationError", response |-> PyNone],
     [exc |-> "openai.APIConnectionError", response |-> PyNone]}
    \cup {[exc |-> "none", response |-> r] : r \in OpenAIResponses}

\* except Exception as e: raise ValueError(f"Failed to process image data from OpenAI. Error: {e}")
OpenAIWrap(e) ==
    Raise("ValueError",
          <<"Failed", "to", "process", "image", "data", "from", "OpenAI.", "Error:", "{}">>,
          <<>>, e)

\* Image.open(BytesIO(base64.b64decode(image_data))) (lines 671-676).
DecodeInline(image_data) ==
    IF B64Decode(image_data).kind = "raise" THEN B64Decode(image_data)
    ELSE ImageOpen(B64Decode(image_data).val)

\* OpenAIProvider.generate_image from the return of the backend call to the
\* image download or, for an inline payload, to its own return (lines 637-701).
OpenAI_generate_returns(c, net, log, out, rs) ==
    LET n == Notify(c.progress, log, << <<7, "Image generated, processing...">> >>, rs)
        n10 == Notify(c.progress, n.log, CompleteItem, Tail(rs))
        settled == Settle(net, OkOrFailed(out.exc = "none"), out)
        data == out.response.data
        item == data.v[1]
        inline == DecodeInline(item.b64_json.v)
    IN  IF out.exc # "none" THEN Done(Reraise(LibError(out.exc)), settled, log)
        ELSE IF n.escaped THEN Done(Reraise(SinkError), settled, n.log)
        ELSE IF data.t # "list" THEN Done(Reraise(LibError("TypeError")), settled, n.log)
        ELSE IF Len(data.v) = 0
        THEN Done(Reraise(Raise("ValueError",
                                <<"Unexpected", "response", "format", "from", "OpenAI",
                                  "API:", "{}">>, <<out.response>>, NoCause)),
                  settled, n.log)
        ELSE IF Truthy(item.url)
        THEN IF ~IsHttpUrl(item.url)
             THEN Done(Reraise(OpenAIWrap(UrlFailure(item.url))),
                       settled, n.log)
             ELSE Going("openai_get",
                        Append(settled, Request("image_download", [url |-> item.url])), n.log)
        ELSE IF Truthy(item.b64_json)
        THEN IF inline.kind = "raise" THEN Done(Reraise(OpenAIWrap(inline)), settled, n.log)
             ELSE IF n10.escaped THEN Done(Reraise(SinkError), settled, n10.log)
             ELSE Done(inline, settled, n10.log)
        ELSE Done(Reraise(OpenAIWrap(Raise("ValueError",
                                           <<"No", "image", "URL", "or", "base64", "data",
                                             "found", "in", "OpenAI", "response">>,
                                           <<>>, NoCause))),
                  settled, n.log)

\* The mutant falls back to the inline payload when the download fails.
OpenAI_get_returns_fallback(c, net, log, resp, rs) ==
    LET n == Notify(c.progress, log, CompleteItem, rs)
        settled == Settle(net, OkOrFailed(GetFailure(resp) = NoCause), resp)
        image == ImageOpen(resp.content)
        item == net[1].reply.response.data.v[1]
    IN  IF GetFailure(resp) # NoCause
        THEN IF Truthy(item.b64_json) /\ DecodeInline(item.b64_json.v).kind = "return"
             THEN Done(DecodeInline(item.b64_json.v), settled, n.log)
             ELSE Done(Reraise(OpenAIWrap(GetFailure(resp))), settled, log)
        ELSE IF image.kind = "raise" THEN Done(Reraise(OpenAIWrap(image)), settled, log)
        ELSE IF n.escaped THEN Done(Reraise(SinkError), settled, n.log)
        ELSE Done(image, settled, n.log)

\* OpenAIProvider.generate_image from the return of the download to its own
\* return (lines 663-667, 683-701).
OpenAI_get_returns(c, net, log, resp, rs) ==
    LET n == Notify(c.progress, log, CompleteItem, rs)
        settled == Settle(net, OkOrFailed(GetFailure(resp) = NoCause), resp)
        image == ImageOpen(resp.content)
    IN  IF GetFailure(resp) # NoCause
        THEN Done(Reraise(OpenAIWrap(GetFailure(resp))), settled, log)
        ELSE IF image.kind = "raise" THEN Done(Reraise(OpenAIWrap(image)), settled, log)
        ELSE IF n.escaped THEN Done(Reraise(SinkError), settled, n.log)
        ELSE Done(image, settled, n.log)

(***************************************************************************)
(* Vectorization client (recraft_vectorizer.py).                           *)
(***************************************************************************)
s_cwd == <<"/", "w">>
s_out_svg == <<"o", "u", "t", "/", "a", ".", "s", "v", "g">>
s_out_SVG == <<"/", "w", "/", "o", "u", "t", "/", "a", ".", "S", "V", "G">>
s_out_txt == <<"o", "u", "t", "/", "a", ".", "t", "x", "t">>
s_out_dir == <<"o", "u", "t", "/", "a", ".", "s", "v", "g", "/">>
s_in_png == <<"i", "n", "/", "a", ".", "p", "n", "g">>
s_in_PNG == <<"i", "n", "/", "a", ".", "P", "N", "G">>
s_in_txt == <<"i", "n", "/", "a", ".", "t", "x", "t">>
s_in_noext == <<"i", "n", "/", "a">>
s_svg_url == <<"h", "t", "t", "p", "s", ":", "/", "/", "v", "/", "a", ".", "s", "v", "g">>

\* os.path.abspath: a relative path is joined to the working directory and
\* trailing separators are dropped (no "." or ".." components are modelled).
RECURSIVE DropTrailingSlashes(_)
DropTrailingSlashes(s) ==
    IF Len(s) > 1 /\ s[Len(s)] = "/" THEN DropTrailingSlashes(SubSeq(s, 1, Len(s) - 1)) ELSE s

AbsPath(path) ==
    DropTrailingSlashes(IF StartsWith(path, <<"/">>) THEN path ELSE s_cwd \o <<"/">> \o path)

\* os.path.dirname of an absolute path.
RECURSIVE DirName(_)
DirName(s) ==
    IF s = <<>> THEN <<>>
    ELSE IF s[Len(s)] = "/" THEN (IF Len(s) = 1 THEN s ELSE SubSeq(s, 1, Len(s) - 1))
    ELSE DirName(SubSeq(s, 1, Len(s) - 1))

valid_extensions ==
    << <<".", "j", "p", "g">>, <<".", "j", "p", "e", "g">>, <<".", "p", "n", "g">>,
       <<".", "g", "i", "f">>, <<".", "b", "m", "p">>, <<".", "t", "i", "f", "f">>,
       <<".", "w", "e", "b", "p">> >>

max_size == 50 * 1024 * 1024

RecraftTokenMsg ==
    <<"Recraft", "API", "token", "not", "found.", "Make", "sure", "to", "set", "the",
      "RECRAFT_API_TOKEN", "environment", "variable.">>

\* The mutant rejects a file of exactly the maximum size.
VectorizeCheck_ge(c) ==
    IF ~Truthy(api_key) THEN Raise("ValueError", RecraftTokenMsg, <<>>, NoCause)
    ELSE IF ~Truthy(c.image_path) \/ ~IsStr(c.image_path)
    THEN Raise("ValueError", <<"Invalid", "image", "path:", "{}">>, <<c.image_path>>, NoCause)
    ELSE IF ~c.exists
    THEN Raise("FileNotFoundError", <<"Image", "file", "not", "found:", "{}">>,
               <<PyStr(AbsPath(c.image_path.v))>>, NoCause)
    ELSE IF ~\E i \in DOMAIN valid_extensions :
               EndsWith(Lower(AbsPath(c.image_path.v)), valid_extensions[i])
    THEN Raise("ValueError", <<"Unsupported", "image", "format.", "Supported", "formats:", "{}">>,
               <<valid_extensions>>, NoCause)
    ELSE IF c.file_size >= max_size
    THEN Raise("ValueError",
               <<"Image", "file", "too", "large:", "{}", "bytes.", "Maximum", "allowed:", "{}",
                 "bytes">>, <<c.file_size, max_size>>, NoCause)
    ELSE NoResult

\* The mutant looks at the extension before it looks for the file.
VectorizeCheck_ext_first(c) ==
    IF ~Truthy(api_key) THEN Raise("ValueError", RecraftTokenMsg, <<>>, NoCause)
    ELSE IF ~Truthy(c.image_path) \/ ~IsStr(c.image_path)
    THEN Raise("ValueError", <<"Invalid", "image", "path:", "{}">>, <<c.image_path>>, NoCause)
    ELSE IF ~\E i \in DOMAIN valid_extensions :
               EndsWith(Lower(AbsPath(c.image_path.v)), valid_extensions[i])
    THEN Raise("ValueError", <<"Unsupported", "image", "format.", "Supported", "formats:", "{}">>,
               <<valid_extensions>>, NoCause)
    ELSE IF ~c.exists
    THEN Raise("FileNotFoundError", <<"Image", "file", "not", "found:", "{}">>,
               <<PyStr(AbsPath(c.image_path.v))>>, NoCause)
    ELSE NoResult

\* The checks of vectorize_image before the upload (lines 35-59): the error
\* raised, or NoResult.  c.exists and c.file_size are what os.path.exists and
\* os.path.getsize answer for the path.
VectorizeCheck(c) ==
    IF ~Truthy(api_key) THEN Raise("ValueError", RecraftTokenMsg, <<>>, NoCause)
    ELSE IF ~Truthy(c.image_path) \/ ~IsStr(c.image_path)
    THEN Raise("ValueError", <<"Invalid", "image", "path:", "{}">>, <<c.image_path>>, NoCause)
    ELSE IF ~c.exists
    THEN Raise("FileNotFoundError", <<"Image", "file", "not", "found:", "{}">>,
               <<PyStr(AbsPath(c.image_path.v))>>, NoCause)
    ELSE IF ~\E i \in DOMAIN valid_extensions :
               EndsWith(Lower(AbsPath(c.image_path.v)), valid_extensions[i])
    THEN Raise("ValueError", <<"Unsupported", "image", "format.", "Supported", "formats:", "{}">>,
               <<valid_extensions>>, NoCause)
    ELSE IF c.file_size > max_size
    THEN Raise("ValueError",
               <<"Image", "file", "too", "large:", "{}", "bytes.", "Maximum", "allowed:", "{}",
                 "bytes">>, <<c.file_size, max_size>>, NoCause)
    ELSE NoResult

\* except Exception as e: raise ValueError(f"Failed to vectorize image: {e}")
VectorizeWrap(e) ==
    Raise("ValueError", <<"Failed", "to", "vectorize", "image:", "{}">>, <<>>, e)

\* vectorize_image up to the upload (lines 35-76, 114-119); open() fails
\* with an OSError when the file cannot be read.
vectorize_image(c) ==
    IF VectorizeCheck(c).kind = "raise" THEN Done(VectorizeCheck(c), <<>>, <<>>)
    ELSE IF ~c.readable THEN Done(VectorizeWrap(LibError("OSError")), <<>>, <<>>)
    ELSE Going("recraft_post",
               <<Request("vectorize_upload",
                         [url |-> "https://external.api.recraft.ai/v1/images/vectorize",
                          file |-> PyStr(AbsPath(c.image_path.v)),
                          authorization |-> <<"Bearer", api_key>>])>>,
               <<>>)

NotJson == [t |-> "notjson"]

\* What the upload can answer: the parsed JSON body of a response, or a
\* transport exception.
RecraftBodies ==
    {PyDict([image |-> PyDict([url |-> PyStr(s_svg_url)])]),
     PyDict([image |-> PyDict(<<>>)]),
     PyDict([image |-> PyDict([id |-> PyStr(s_none)])]),
     PyDict([image |-> PyStr(s_svg_url)]),
     PyDict([error |-> PyStr(s_none)]),
     PyList(<<>>), PyNone, NotJson}

RecraftResponses ==
    {Response(200, s_ct_json, b) : b \in RecraftBodies}
    \cup {Response(s, s_ct_json, PyDict([error |-> PyStr(s_none)])) :
            s \in {400, 401, 429, 500}}
    \cup {TransportError("requests.exceptions.ConnectionError"),
          TransportError("requests.exceptions.Timeout"),
          TransportError("requests.exceptions.TooManyRedirects")}

\* The mutant reports every HTTP error of the upload alike.
UploadFailure_generic(resp) ==
    IF resp.exc = "requests.exceptions.ConnectionError"
    THEN Raise("ValueError", <<"Network", "error", "when", "connecting", "to", "Recraft:", "{}">>,
               <<>>, LibError(resp.exc))
    ELSE IF resp.exc = "requests.exceptions.Timeout"
    THEN Raise("ValueError", <<"Request", "to", "Recraft", "API", "timed", "out:", "{}">>,
               <<>>, LibError(resp.exc))
    ELSE IF resp.exc # "none"
    THEN Raise("ValueError", <<"Request", "error:", "{}">>, <<>>, LibError(resp.exc))
    ELSE IF RaiseForStatus(resp)
    THEN Raise("ValueError", <<"Recraft", "API", "error:", "{}">>, <<>>,
               LibError("requests.exceptions.HTTPError"))
    ELSE IF resp.content = NotJson
    THEN Raise("ValueError", <<"Request", "error:", "{}">>, <<>>,
               LibError("requests.exceptions.JSONDecodeError"))
    ELSE NoCause

\* The except clauses of the upload (lines 79-93): the ValueError raised for
\* a failed request, NoCause for a response that can be parsed.
UploadFailure(resp) ==
    LET http == LibError("requests.exceptions.HTTPError")
    IN  IF resp.exc = "requests.exceptions.ConnectionError"
        THEN Raise("ValueError", <<"Network", "error", "when", "connecting", "to", "Recraft:", "{}">>,
                   <<>>, LibError(resp.exc))
        ELSE IF resp.exc = "requests.exceptions.Timeout"
        THEN Raise("ValueError", <<"Request", "to", "Recraft", "API", "timed", "out:", "{}">>,
                   <<>>, LibError(resp.exc))
        ELSE IF resp.exc # "none"
        THEN Raise("ValueError", <<"Request", "error:", "{}">>, <<>>, LibError(resp.exc))
        ELSE IF RaiseForStatus(resp)
        THEN CASE resp.status = 401 ->
                    Raise("ValueError", <<"Invalid", "API", "key", "or", "authentication",
                                          "error:", "{}">>, <<>>, http)
               [] resp.status = 429 ->
                    Raise("ValueError", <<"Recraft", "API", "rate", "limit", "exceeded:", "{}">>,
                          <<>>, http)
               [] resp.status = 400 ->
                    Raise("ValueError", <<"Invalid", "request", "parameters:", "{}">>, <<>>, http)
               [] OTHER -> Raise("ValueError", <<"Recraft", "API", "error:", "{}">>, <<>>, http)
        ELSE IF resp.content = NotJson
        THEN Raise("ValueError", <<"Request", "error:", "{}">>, <<>>,
                   LibError("requests.exceptions.JSONDecodeError"))
        ELSE NoCause

\* The mutant reads the URL with .get(): a missing key gives None, not an error.
VectorizeResult_get(response) ==
    IF response = PyNone
    THEN Raise("ValueError", <<"Received", "empty", "response", "from", "Recraft", "API">>,
               <<>>, NoCause)
    ELSE IF response.t # "dict"
    THEN Raise("TypeError", <<"Unexpected", "response", "type:", "{}.", "Expected", "dictionary.">>,
               <<response.t>>, NoCause)
    ELSE IF "image" \notin DOMAIN response.v THEN Return(PyNone)
    ELSE IF response.v.image.t # "dict"
    THEN Raise("TypeError", <<"Unexpected", "'image'", "type:", "{}.", "Expected", "dictionary.">>,
               <<response.v.image.t>>, NoCause)
    ELSE IF "url" \notin DOMAIN response.v.image.v THEN Return(PyNone)
    ELSE Return(response.v.image.v.url)

\* The validation of the parsed response (lines 95-112).
VectorizeResult(response) ==
    IF response = PyNone
    THEN Raise("ValueError", <<"Received", "empty", "response", "from", "Recraft", "API">>,
               <<>>, NoCause)
    ELSE IF response.t # "dict"
    THEN Raise("TypeError", <<"Unexpected", "response", "type:", "{}.", "Expected", "dictionary.">>,
               <<response.t>>, NoCause)
    ELSE IF "image" \notin DOMAIN response.v
    THEN Raise("KeyError", <<"Response", "missing", "'image'", "key.", "Response", "keys:", "{}">>,
               <<DOMAIN response.v>>, NoCause)
    ELSE IF response.v.image.t # "dict"
    THEN Raise("TypeError", <<"Unexpected", "'image'", "type:", "{}.", "Expected", "dictionary.">>,
               <<response.v.image.t>>, NoCause)
    ELSE IF "url" \notin DOMAIN response.v.image.v
    THEN Raise("KeyError", <<"Response", "missing", "'url'", "key", "in", "'image'.",
                             "Image", "keys:", "{}">>,
               <<DOMAIN response.v.image.v>>, NoCause)
    ELSE Return(response.v.image.v.url)

\* The mutant uploads once more after a failed upload.
vectorize_post_returns_retry(net, resp) ==
    IF UploadFailure(resp) # NoCause
    THEN IF Len(net) < 2
         THEN Going("recraft_post",
                    Append(Settle(net, "failed", resp), [net[1] EXCEPT !.status = "pending"]),
                    <<>>)
         ELSE Done(Reraise(UploadFailure(resp)), Settle(net, "failed", resp), <<>>)
    ELSE Done(VectorizeResult(resp.content), Settle(net, "ok", resp), <<>>)

\* vectorize_image from the return of the upload to its own return (lines 71-119).
vectorize_post_returns(net, resp) ==
    IF UploadFailure(resp) # NoCause
    THEN Done(Reraise(UploadFailure(resp)),
              Settle(net, OkOrFailed(resp.exc = "none" /\ ~RaiseForStatus(resp)), resp), <<>>)
    ELSE IF VectorizeResult(resp.content).kind = "raise"
    THEN Done(Reraise(VectorizeResult(resp.content)), Settle(net, "ok", resp), <<>>)
    ELSE Done(VectorizeResult(resp.content), Settle(net, "ok", resp), <<>>)

\* The mutant does not look at the extension of the output path.
DownloadCheck_noext(c) ==
    IF ~Truthy(c.url) \/ ~IsStr(c.url)
    THEN Raise("ValueError", <<"Invalid", "URL:", "{}">>, <<c.url>>, NoCause)
    ELSE IF ~(StartsWith(c.url.v, s_http) \/ StartsWith(c.url.v, s_https))
    THEN Raise("ValueError", <<"URL", "must", "start", "with", "http://", "or", "https://:", "{}">>,
               <<c.url>>, NoCause)
    ELSE IF ~Truthy(c.output_path) \/ ~IsStr(c.output_path)
    THEN Raise("ValueError", <<"Invalid", "output", "path:", "{}">>, <<c.output_path>>, NoCause)
    ELSE NoResult

\* The checks of download_svg before the GET (lines 136-162): the error
\* raised, or NoResult.
DownloadCheck(c) ==
    IF ~Truthy(c.url) \/ ~IsStr(c.url)
    THEN Raise("ValueError", <<"Invalid", "URL:", "{}">>, <<c.url>>, NoCause)
    ELSE IF ~(StartsWith(c.url.v, s_http) \/ StartsWith(c.url.v, s_https))
    THEN Raise("ValueError", <<"URL", "must", "start", "with", "http://", "or", "https://:", "{}">>,
               <<c.url>>, NoCause)
    ELSE IF ~Truthy(c.output_path) \/ ~IsStr(c.output_path)
    THEN Raise("ValueError", <<"Invalid", "output", "path:", "{}">>, <<c.output_path>>, NoCause)
    ELSE IF ~EndsWith(Lower(AbsPath(c.output_path.v)), <<".", "s", "v", "g">>)
    THEN Raise("ValueError", <<"Output", "path", "must", "have", ".svg", "extension">>,
               <<>>, NoCause)
    ELSE NoResult

\* download_svg up to the GET (lines 136-166).
download_svg(c) ==
    IF DownloadCheck(c).kind = "raise" THEN Done(DownloadCheck(c), <<>>, <<>>)
    ELSE Going("svg_get", <<Request("svg_download", [url |-> c.url])>>, <<>>)

\* Bodies a download can have: an SVG with a shape, an SVG without one, an
\* SVG too short for the sniff, plain text.
SvgBytes == <<"<", "s", "v", "g", " ", "w", "i", "d", "t", "h", "=", "'", "1", "0", "'", ">", "<", "r", "e", "c", "t", " ", "w", "i", "d", "t", "h", "=", "'", "1", "0", "'", "/", ">", "<", "/", "s", "v", "g", ">">>
BareSvgBytes == <<"<", "s", "v", "g", " ", "w", "i", "d", "t", "h", "=", "'", "1", "0", "0", "'", " ", "h", "e", "i", "g", "h", "t", "=", "'", "1", "0", "0", "'", ">", "t", "e", "x", "t", "<", "/", "s", "v", "g", ">">>
ShortSvgBytes == <<"<", "s", "v", "g", "/", ">">>
TextBytes == <<"o", "o", "p", "s">>

\* What the GET of download_svg can answer.  A 3xx answer is final when the
\* client cannot follow it (304, or a redirect without Location).
SvgResponses ==
    {Response(200, s_ct_svg, SvgBytes), Response(200, s_ct_plain, SvgBytes),
     Response(200, s_ct_svg, BareSvgBytes), Response(200, s_ct_svg, ShortSvgBytes),
     Response(200, s_ct_html, TextBytes), Response(204, <<>>, <<>>),
     Response(304, <<>>, <<>>), Response(404, s_ct_html, TextBytes),
     TransportError("requests.exceptions.ConnectionError"),
     TransportError("requests.exceptions.Timeout")}

\* sub in s, for byte strings and strings.
Contains(s, sub) == \E i \in 1..(Len(s) - Len(sub) + 1) : SubSeq(s, i, i + Len(sub) - 1) = sub

\* s[:n] and s[-n:]
FirstN(s, n) == SubSeq(s, 1, IF Len(s) < n THEN Len(s) ELSE n)
LastN(s, n) == SubSeq(s, IF Len(s) < n THEN 1 ELSE Len(s) - n + 1, Len(s))

PyBool(b) == [t |-> "bool", v |-> b]

\* content_check (lines 174-177)
ContentCheck(ctype, content) ==
    \/ Contains(Lower(ctype), <<"s", "v", "g">>)
    \/ StartsWith(content, <<"<", "?", "x", "m", "l">>)
    \/ StartsWith(content, <<"<", "s", "v", "g">>)
    \/ Contains(FirstN(content, 1000), <<"<", "s", "v", "g">>)

\* has_elements (lines 188-190)
ShapeTags ==
    {<<"<", "p", "a", "t", "h">>, <<"<", "c", "i", "r", "c", "l", "e">>, <<"<", "r", "e", "c", "t">>,
     <<"<", "e", "l", "l", "i", "p", "s", "e">>, <<"<", "l", "i", "n", "e">>,
     <<"<", "p", "o", "l", "y", "l", "i", "n", "e">>, <<"<", "p", "o", "l", "y", "g", "o", "n">>,
     <<"<", "g">>}
HasElements(content) == \E tag \in ShapeTags : Contains(content, tag)

\* is_svg (lines 180-199): what the sniff makes of the response.
IsSvg(ctype, content) ==
    IF ContentCheck(ctype, content)
    THEN /\ Contains(content, <<"<", "s", "v", "g">>)
         /\ (Contains(content, <<"<", "/", "s", "v", "g", ">">>)
                \/ Contains(LastN(content, 10), <<"/", ">">>))
         /\ Len(content) > 30
    ELSE FALSE

\* How the file system answers makedirs / open / write.
IoOutcomes == {"ok", "makedirs_fails", "open_fails", "write_fails"}

\* A directory and the directories above it.
RECURSIVE WithParents(_)
WithParents(dir) == IF Len(dir) <= 1 THEN {dir} ELSE {dir} \cup WithParents(DirName(dir))

\* open(path, 'wb') creates or truncates the file; write() stores the bytes.
PutFile(files, path, content) == {f \in files : f[1] # path} \cup {<<path, content>>}

\* The disk after os.makedirs(dirname, exist_ok=True), open and write
\* (lines 201-206), for each way these can fail with an IOError.
WriteSvg(d, path, content, io) ==
    CASE io = "makedirs_fails" -> d
      [] io = "open_fails" -> [d EXCEPT !.dirs = @ \cup WithParents(DirName(path))]
      [] io = "write_fails" ->
           [dirs |-> d.dirs \cup WithParents(DirName(path)),
            files |-> PutFile(d.files, path, <<>>)]
      [] io = "ok" ->
           [dirs |-> d.dirs \cup WithParents(DirName(path)),
            files |-> PutFile(d.files, path, content)]

\* The mutant reports a download that fails the sniff as failed.
DownloadReturns_sniff(resp, io) ==
    GetFailure(resp) = NoCause /\ io = "ok" /\ IsSvg(resp.ctype, resp.content)

\* download_svg from the return of the GET to its own return (lines 166-230):
\* the boolean it returns.
DownloadReturns(resp, io) == GetFailure(resp) = NoCause /\ io = "ok"

(***************************************************************************)
(* Inputs of the operations.                                               *)
(***************************************************************************)
ProviderNames ==
    {PyNone, PyStr(<<>>), PyStr(s_replicate), PyStr(s_Replicate), PyStr(s_fal), PyStr(s_FAL),
     PyStr(s_fal_sp), PyStr(s_openai), PyStr(s_OpenAI), PyStr(s_openai_gpt),
     PyStr(s_OpenAI_GPT), PyStr(s_dalle)}

FacadeNames == {PyNone, PyStr(s_FAL)}

Prompts == {PyNone, PyStr(<<>>), PyStr(s_ws), PyStr(s_prompt)}
AspectRatios == {PyStr(s_1_1), PyStr(s_16_9)}
MagicOptions == {PyStr(s_Auto)}
StyleTypes == {PyStr(s_auto)}
Sinks == {PyNone, PyInt(5), Sink("ok"), Sink("raises")}

ImagePaths ==
    {PyNone, PyStr(<<>>), PyStr(s_in_png), PyStr(s_in_PNG), PyStr(s_in_txt), PyStr(s_in_noext)}
FileSizes == {1024, max_size, max_size + 1}

SvgUrls == {PyNone, PyStr(<<>>), PyStr(s_svg_url), PyStr(s_url2), PyStr(s_ftp)}
OutputPaths ==
    {PyNone, PyStr(<<>>), PyStr(s_out_svg), PyStr(s_out_SVG), PyStr(s_out_txt), PyStr(s_out_dir)}

(***************************************************************************)
(* The state machine.                                                      *)
(***************************************************************************)
Idle == [op |-> "idle"]

\* The credentials are read from the environment once, at import
\* (api_provider.py 21-23, recraft_vectorizer.py 17).
Start(env) ==
    /\ environ = env
    /\ REPLICATE_API_KEY = env["REPLICATE_API_TOKEN"]
    /\ FAL_API_KEY = env["FAL_KEY"]
    /\ OPENAI_API_KEY = env["OPENAI_API_KEY"]
    /\ api_key = env["RECRAFT_API_TOKEN"]
    /\ call = Idle
    /\ pc = "idle"
    /\ netlog = <<>>
    /\ sinklog = <<>>
    /\ updates = 0
    /\ disk = [dirs |-> {<<"/">>, s_cwd}, files |-> {}]
    /\ result = NoResult

GenKeys == {"REPLICATE_API_TOKEN", "FAL_KEY", "OPENAI_API_KEY"}

\* Every combination of the generation credentials.
Init ==
    \E env \in [EnvKeys -> CredValues] :
       /\ env["RECRAFT_API_TOKEN"] = PyStr(s_key)
       /\ Start(env)

\* Every value of the vectorization credential.
InitVec ==
    \E env \in [EnvKeys -> CredValues] :
       /\ \A k \in GenKeys : env[k] = PyStr(s_key)
       /\ Start(env)

\* Every credential set.
InitAll == Start([k \in EnvKeys |-> PyStr(s_key)])

CanCall == pc = "idle"

\* The operation moves to where the step left it.
Apply(s) ==
    /\ pc' = s.pc
    /\ result' = s.result
    /\ netlog' = s.netlog
    /\ sinklog' = s.sinklog

Globals == <<REPLICATE_API_KEY, FAL_API_KEY, OPENAI_API_KEY, api_key>>

\* <adapter>.is_configured(), called on its own.
IsConfigured(p) ==
    /\ CanCall
    /\ call' = [op |-> "is_configured", adapter |-> p, before |-> <<config, disk>>]
    /\ Apply(Done(Return(is_configured(p)), <<>>, <<>>))
    /\ updates' = 0
    /\ UNCHANGED <<config, disk>>

\* get_provider(provider_name), called on its own.
GetProvider(provider_name) ==
    /\ CanCall
    /\ call' = [op |-> "get_provider", provider_name |-> provider_name]
    /\ Apply(Done(get_provider(provider_name), <<>>, <<>>))
    /\ updates' = 0
    /\ UNCHANGED <<config, disk>>

GenerateCall(via, provider_name, p, prompt, aspect_ratio, magic_prompt_option, style_type, progress, installed) ==
    [op |-> "generate_image", via |-> via, provider_name |-> provider_name, adapter |-> p,
     prompt |-> prompt, aspect_ratio |-> aspect_ratio,
     magic_prompt_option |-> magic_prompt_option, style_type |-> style_type,
     progress |-> progress, installed |-> installed]

\* provider.generate_image(...) of the adapter c.adapter, up to its first
\* suspension point.
StartGenerate(c) ==
    /\ call' = c
    /\ updates' = 0
    /\ \E rs \in RaiseChoices(c.progress) :
         LET s == CASE c.adapter = "Replicate" -> Replicate_generate_image(c, rs)
                    [] c.adapter = "Fal.ai" -> Fal_generate_image(c, rs)
                    [] c.adapter = "OpenAI" -> OpenAI_generate_image(c, rs)
         IN  /\ Apply(s)
             /\ environ' = IF s.pc = "fal_subscribe" THEN FalSetEnviron(environ) ELSE environ
    /\ UNCHANGED <<Globals, disk>>

\* <adapter>.generate_image(prompt, aspect_ratio, magic_prompt_option, style_type, progress)
AdapterGenerateImage(p, prompt, aspect_ratio, magic_prompt_option, style_type, progress) ==
    /\ CanCall
    /\ \E installed \in (IF p = "Replicate" THEN {TRUE} ELSE BOOLEAN) :
         StartGenerate(GenerateCall("adapter", PyNone, p, prompt, aspect_ratio,
                                    magic_prompt_option, style_type, progress, installed))

\* ideogram_generator.generate_image: get_provider, then the adapter.
FacadeGenerateImage(prompt, aspect_ratio, magic_prompt_option, style_type, provider_name, progress) ==
    /\ CanCall
    /\ LET provider == get_provider(provider_name)
       IN  IF provider.kind = "raise"
           THEN /\ call' = GenerateCall("facade", provider_name, "none", prompt, aspect_ratio,
                                        magic_prompt_option, style_type, progress, TRUE)
                /\ Apply(Done(provider, <<>>, <<>>))
                /\ updates' = 0
                /\ UNCHANGED <<config, disk>>
           ELSE \E installed \in (IF provider.val = "Replicate" THEN {TRUE} ELSE BOOLEAN) :
                  StartGenerate(GenerateCall("facade", provider_name, provider.val, prompt,
                                             aspect_ratio, magic_prompt_option, style_type,
                                             progress, installed))

ReplicateRunReturns ==
    /\ pc = "replicate_run"
    /\ \E out \in ReplicateOutcomes, rs \in RaiseChoices(call.progress) :
         Apply(Replicate_run_returns(call, netlog, sinklog, out, rs))
    /\ UNCHANGED <<config, call, updates, disk>>

ReplicateGetReturns ==
    /\ pc = "replicate_get"
    /\ \E resp \in ImageResponses, rs \in RaiseChoices(call.progress) :
         Apply(Replicate_get_returns(call, netlog, sinklog, resp, rs))
    /\ UNCHANGED <<config, call, updates, disk>>

\* The Fal.ai client delivers a queue update to on_queue_update while
\* subscribe() is waiting; an exception of the callback ends subscribe().
FalQueueUpdate ==
    /\ pc = "fal_subscribe"
    /\ updates < MaxUpdates
    /\ \E update \in FalUpdates, rs \in RaiseChoices(call.progress) :
         LET u == on_queue_update(update, call.progress, sinklog, rs)
         IN  IF u.raised # NoCause
             THEN Apply(Done(Reraise(u.raised), Settle(netlog, "aborted", update), u.log))
             ELSE IF u.escaped
             THEN Apply(Done(Reraise(SinkError), Settle(netlog, "aborted", update), u.log))
             ELSE Apply(Going("fal_subscribe", netlog, u.log))
    /\ updates' = updates + 1
    /\ UNCHANGED <<config, call, disk>>

FalSubscribeReturns ==
    /\ pc = "fal_subscribe"
    /\ \E out \in FalOutcomes, rs \in RaiseChoices(call.progress) :
         Apply(Fal_subscribe_returns(call, netlog, sinklog, out, rs))
    /\ UNCHANGED <<config, call, updates, disk>>

FalGetReturns ==
    /\ pc = "fal_get"
    /\ \E resp \in ImageResponses, rs \in RaiseChoices(call.progress) :
         Apply(Fal_get_returns(call, netlog, sinklog, resp, rs))
    /\ UNCHANGED <<config, call, updates, disk>>

OpenAIGenerateReturns ==
    /\ pc = "openai_generate"
    /\ \E out \in OpenAIOutcomes, rs \in RaiseChoices(call.progress) :
         Apply(OpenAI_generate_returns(call, netlog, sinklog, out, rs))
    /\ UNCHANGED <<config, call, updates, disk>>

OpenAIGetReturns ==
    /\ pc = "openai_get"
    /\ \E resp \in ImageResponses, rs \in RaiseChoices(call.progress) :
         Apply(OpenAI_get_returns(call, netlog, sinklog, resp, rs))
    /\ UNCHANGED <<config, call, updates, disk>>

\* vectorize_image(image_path)
VectorizeImage(image_path) ==
    /\ CanCall
    /\ \E exists \in BOOLEAN, file_size \in FileSizes, readable \in BOOLEAN :
         LET c == [op |-> "vectorize_image", image_path |-> image_path, exists |-> exists,
                   file_size |-> file_size, readable |-> readable]
         IN  /\ call' = c
             /\ Apply(vectorize_image(c))
    /\ updates' = 0
    /\ UNCHANGED <<config, disk>>

VectorizePostReturns ==
    /\ pc = "recraft_post"
    /\ \E resp \in RecraftResponses : Apply(vectorize_post_returns(netlog, resp))
    /\ UNCHANGED <<config, call, updates, disk>>

\* download_svg(url, output_path)
DownloadSvg(url, output_path) ==
    /\ CanCall
    /\ LET c == [op |-> "download_svg", url |-> url, output_path |-> output_path,
                 before |-> disk, is_svg |-> PyNone, io |-> "none"]
       IN  /\ call' = c
           /\ Apply(download_svg(c))
    /\ updates' = 0
    /\ UNCHANGED <<config, disk>>

DownloadSvgGetReturns ==
    /\ pc = "svg_get"
    /\ \E resp \in SvgResponses, io \in IoOutcomes :
         /\ Apply(Done(Return(DownloadReturns(resp, io)),
                       Settle(netlog, OkOrFailed(GetFailure(resp) = NoCause), resp), <<>>))
         /\ disk' = IF GetFailure(resp) = NoCause
                    THEN WriteSvg(disk, AbsPath(call.output_path.v), resp.content, io)
                    ELSE disk
         /\ call' = IF GetFailure(resp) = NoCause
                    THEN [call EXCEPT !.is_svg = PyBool(IsSvg(resp.ctype, resp.content)),
                                      !.io = io]
                    ELSE call
    /\ UNCHANGED <<config, updates>>

\* The operation has returned or raised and the caller takes the outcome: the
\* call's entities are request-scoped, only the credentials and the disk remain.
Finish ==
    /\ pc = "done"
    /\ pc' = "idle"
    /\ call' = Idle
    /\ netlog' = <<>>
    /\ sinklog' = <<>>
    /\ updates' = 0
    /\ result' = NoResult
    /\ UNCHANGED <<config, disk>>

Next ==
    \/ \E p \in Providers : IsConfigured(p)
    \/ \E provider_name \in ProviderNames : GetProvider(provider_name)
    \/ \E p \in Providers, prompt \in Prompts, aspect_ratio \in AspectRatios,
          magic_prompt_option \in MagicOptions, style_type \in StyleTypes, progress \in Sinks :
         AdapterGenerateImage(p, prompt, aspect_ratio, magic_prompt_option, style_type, progress)
    \/ \E prompt \in Prompts, aspect_ratio \in AspectRatios,
          magic_prompt_option \in MagicOptions, style_type \in StyleTypes,
          provider_name \in FacadeNames, progress \in Sinks :
         FacadeGenerateImage(prompt, aspect_ratio, magic_prompt_option, style_type,
                             provider_name, progress)
    \/ ReplicateRunReturns
    \/ ReplicateGetReturns
    \/ FalQueueUpdate
    \/ FalSubscribeReturns
    \/ FalGetReturns
    \/ OpenAIGenerateReturns
    \/ OpenAIGetReturns
    \/ Finish

NextVec ==
    \/ \E image_path \in ImagePaths : VectorizeImage(image_path)
    \/ VectorizePostReturns
    \/ \E url \in SvgUrls, output_path \in OutputPaths : DownloadSvg(url, output_path)
    \/ DownloadSvgGetReturns
    \/ Finish

NextAll == Next \/ NextVec

\* Selector, facade and adapters, from every combination of generation credentials.
Spec == Init /\ [][Next]_vars

\* Vectorization client, from every value of its credential.
SpecVec == InitVec /\ [][NextVec]_vars

\* Every operation, with every credential set.
SpecAll == InitAll /\ [][NextAll]_vars

\* The ratios of the interface's menu (gradio_app.py 422-431), 5:4 and None.
OpenAIRatios ==
    {PyNone, PyStr(s_1_1), PyStr(s_16_9), PyStr(s_9_16), PyStr(s_4_3), PyStr(s_3_4),
     PyStr(s_3_2), PyStr(s_2_3), PyStr(s_5_4), PyStr(s_auto)}

\* The options of the two menus (gradio_app.py 437-452, 475-489), in other
\* letter cases, unknown, empty and None.
OpenAIMagicOptions ==
    {PyNone, PyStr(<<>>), PyStr(s_Auto), PyStr(s_On), PyStr(s_Off), PyStr(s_high),
     PyStr(s_High), PyStr(s_medium), PyStr(s_low), PyStr(s_sepia)}
OpenAIStyleTypes ==
    {PyNone, PyStr(<<>>), PyStr(s_auto), PyStr(s_none), PyStr(s_transparent),
     PyStr(s_Transparent), PyStr(s_opaque), PyStr(s_general), PyStr(s_realistic),
     PyStr(s_design)}

\* <<aspect_ratio, magic_prompt_option, style_type>>: every value of each
\* parameter, with the other two at a value of the menus.
OpenAIInputs ==
    (OpenAIRatios \X MagicOptions \X StyleTypes)
    \cup ({PyStr(s_1_1), PyStr(s_3_2)} \X OpenAIMagicOptions \X {PyStr(s_auto), PyStr(s_none)})
    \cup ({PyStr(s_1_1), PyStr(s_2_3)} \X {PyStr(s_Auto), PyStr(s_On)} \X OpenAIStyleTypes)

NextOpenAI ==
    \/ \E prompt \in Prompts, in \in OpenAIInputs, progress \in Sinks :
         AdapterGenerateImage("OpenAI", prompt, in[1], in[2], in[3], progress)
    \/ OpenAIGenerateReturns
    \/ OpenAIGetReturns
    \/ Finish

\* The OpenAI adapter alone, with every ratio of the menu.
SpecOpenAI == InitAll /\ [][NextOpenAI]_vars

\* The values of the three menus (gradio_app.py 422-452), in other letter
\* cases, unknown, empty and None.
FalRatios ==
    {PyNone, PyStr(s_1_1), PyStr(s_16_9), PyStr(s_9_16), PyStr(s_4_3), PyStr(s_3_4),
     PyStr(s_3_2), PyStr(s_auto)}
FalMagicOptions ==
    {PyStr(<<>>), PyStr(s_Auto), PyStr(s_AUTO), PyStr(s_On), PyStr(s_on), PyStr(s_Off),
     PyStr(s_sepia)}
FalStyleTypes ==
    {PyNone, PyStr(<<>>), PyStr(s_auto), PyStr(s_general), PyStr(s_General),
     PyStr(s_realistic), PyStr(s_design), PyStr(s_none), PyStr(s_sepia)}

\* <<aspect_ratio, magic_prompt_option, style_type>>: every value of each
\* parameter, with the other two at a value of the menus.
FalInputs ==
    (FalRatios \X MagicOptions \X StyleTypes)
    \cup ({PyStr(s_1_1), PyStr(s_16_9)} \X FalMagicOptions \X {PyStr(s_auto), PyStr(s_design)})
    \cup ({PyStr(s_1_1), PyStr(s_4_3)} \X {PyStr(s_Auto), PyStr(s_sepia)} \X FalStyleTypes)

NextFal ==
    \/ \E prompt \in Prompts, in \in FalInputs, progress \in Sinks :
         AdapterGenerateImage("Fal.ai", prompt, in[1], in[2], in[3], progress)
    \/ FalQueueUpdate
    \/ FalSubscribeReturns
    \/ FalGetReturns
    \/ Finish

\* The Fal.ai adapter alone, with every value of the menus.
SpecFal == InitAll /\ [][NextFal]_vars

\* The values of the three menus (gradio_app.py 422-452), in other letter
\* cases, unknown, empty and None.
ReplicateRatios == {PyNone, PyStr(s_1_1), PyStr(s_16_9), PyStr(s_3_2), PyStr(s_sepia)}
ReplicateMagicOptions ==
    {PyStr(s_Auto), PyStr(s_AUTO), PyStr(s_On), PyStr(s_on), PyStr(s_Off), PyStr(s_sepia)}
ReplicateStyleTypes ==
    {PyNone, PyStr(<<>>), PyStr(s_auto), PyStr(s_general), PyStr(s_General),
     PyStr(s_realistic), PyStr(s_design), PyStr(s_none), PyStr(s_None), PyStr(s_sepia)}

\* <<aspect_ratio, magic_prompt_option, style_type>>: every value of each
\* parameter, with the other two at a value of the menus.
ReplicateInputs ==
    (ReplicateRatios \X MagicOptions \X StyleTypes)
    \cup ({PyStr(s_1_1), PyStr(s_16_9)} \X ReplicateMagicOptions \X {PyStr(s_auto), PyStr(s_design)})
    \cup ({PyStr(s_1_1), PyStr(s_3_2)} \X {PyStr(s_Auto), PyStr(s_Off)} \X ReplicateStyleTypes)

NextReplicate ==
    \/ \E prompt \in Prompts, in \in ReplicateInputs, progress \in Sinks :
         AdapterGenerateImage("Replicate", prompt, in[1], in[2], in[3], progress)
    \/ ReplicateRunReturns
    \/ ReplicateGetReturns
    \/ Finish

\* The Replicate adapter alone, with every value of the menus.
SpecReplicate == InitAll /\ [][NextReplicate]_vars

(***************************************************************************)
(* The interface's orchestration (gradio_app.py).                          *)
(***************************************************************************)
s_input_path == <<"o", "u", "t", "p", "u", "t", "/", "u", "p", "l", "o", "a", "d", "s", "/", "i", "m", "a", "g", "e", "_", "1", ".", "p", "n", "g">>
s_output_path == <<"o", "u", "t", "p", "u", "t", "/", "v", "e", "c", "t", "o", "r", "s", "/", "v", "e", "c", "t", "o", "r", "_", "1", ".", "s", "v", "g">>

\* The interface's own copies of the credentials (lines 16-19), read from the
\* environment at import like the ones of the modules it calls.
recraft_api_key == api_key
replicate_api_key == REPLICATE_API_KEY
fal_api_key == FAL_API_KEY
openai_api_key == OPENAI_API_KEY

\* os.makedirs(UPLOADS_DIR), os.makedirs(VECTORS_DIR) at import (lines 22-27).
OutputDirs ==
    WithParents(DirName(AbsPath(s_input_path))) \cup WithParents(DirName(AbsPath(s_output_path)))

\* provider_map.get(provider_name, None) (lines 90-98)
provider_map(provider_name) ==
    IF ~IsStr(provider_name) THEN PyNone
    ELSE DictGet(<< <<s_Auto, PyNone>>, <<s_OpenAI_GPT, PyStr(s_openai)>>,
                    <<s_Replicate, PyStr(s_replicate)>>, <<s_Fal_ai, PyStr(s_fal)>> >>,
                 provider_name.v, PyNone)

\* The message of a result: an error ("❌ ...") or the success text.
ErrorMessage(text) == [level |-> "error", text |-> text]
SuccessMessage(svg_url) == [level |-> "success", text |-> "Vectorization successful!", svg_url |-> svg_url]

\* (svg_path, svg_html, message), the result of process_image_internal.
ProcessResult(svg_path, svg_html, message) ==
    [svg_path |-> svg_path, svg_html |-> svg_html, message |-> message]

\* (generated_image, svg_path, svg_html, message), the result of
\* generate_and_process_image.
GenerateResult(generated_image, r) ==
    [generated_image |-> generated_image, svg_path |-> r.svg_path, svg_html |-> r.svg_html,
     message |-> r.message]

Failure(text) == ProcessResult(PyNone, PyNone, ErrorMessage(text))

\* The handlers at the end of both functions (lines 128-139, 291-304): the
\* message for the exception a stage raised.
AppHandler(fn, e) ==
    IF e.exc \in {"ValueError"} \/ (fn = "process_image_internal" /\ e.exc = "FileNotFoundError")
    THEN Failure("ERROR: {}")
    ELSE IF fn = "generate_and_process_image" THEN Failure("Image generation failed!")
    ELSE Failure("Vectorization failed!")

\* What the function returns to the interface: generate_and_process_image
\* puts the generated image in front of the result of process_image_internal.
AppReturn(app, r) ==
    IF app.fn = "generate_and_process_image" THEN Return(GenerateResult(app.image, r))
    ELSE Return(r)

\* The frame of the orchestration: the function called, the stage it is in,
\* the stages it has started with their outcomes, the image and the SVG URL
\* it holds.
Frame(fn, stage, trace, image, svg_url) ==
    [fn |-> fn, stage |-> stage, trace |-> trace, image |-> image, svg_url |-> svg_url]

Stage(name, outcome) == [stage |-> name, outcome |-> outcome]

\* The outcome of the stage in progress becomes `outcome`.
Close(trace, outcome) == [trace EXCEPT ![Len(trace)].outcome = outcome]

\* How saving and validating the input image can go (lines 225-245).
SaveOutcomes == {"ok", "save_fails", "empty", "invalid"}

\* image.save(input_path) as PNG: the signature and the pixel data.
SavedBytes(image) == <<137, 80, 78, 71>> \o image.data

\* The disk after the save stage: an image that fails to save leaves nothing,
\* an invalid one is removed again.
SaveImage(d, image, save) ==
    CASE save = "ok" -> [d EXCEPT !.files = PutFile(@, AbsPath(s_input_path), SavedBytes(image))]
      [] save = "empty" -> [d EXCEPT !.files = PutFile(@, AbsPath(s_input_path), <<>>)]
      [] OTHER -> d

SaveFailure(save) ==
    CASE save = "save_fails" -> Failure("Failed to save uploaded image: {}")
      [] save = "empty" -> Failure("Failed to save the image or the image is empty.")
      [] save = "invalid" -> Failure("The uploaded file is not a valid image.")

\* The record of the vectorize_image call the orchestration makes.
VectorizeCall(file_size, readable) ==
    [op |-> "vectorize_image", image_path |-> PyStr(s_input_path), exists |-> TRUE,
     file_size |-> file_size, readable |-> readable]

\* The record of the download_svg call the orchestration makes.
DownloadCall(svg_url, d) ==
    [op |-> "download_svg", url |-> svg_url, output_path |-> PyStr(s_output_path),
     before |-> d, is_svg |-> PyNone, io |-> "none"]

\* process_image_internal up to the upload (lines 181-251): the record of
\* the call in progress, where it stands, and the disk.
process_image_internal(app, image, d, save, file_size, readable) ==
    LET saving == <<Stage("save", "pending")>>
        ended(trace, r, after) ==
            [call |-> [op |-> app.fn, app |-> Frame(app.fn, "end", app.trace \o trace, image, PyNone)],
             step |-> Done(AppReturn([app EXCEPT !.image = image], r), <<>>, <<>>),
             disk |-> after]
    IN  IF ~Truthy(recraft_api_key)
        THEN ended(<<>>, Failure("Recraft API token not found!"), d)
        ELSE IF image = PyNone
        THEN ended(<<>>, Failure("No image uploaded. Please upload an image first."), d)
        ELSE IF save # "ok"
        THEN ended(Close(saving, "failed"), SaveFailure(save), SaveImage(d, image, save))
        ELSE [call |-> VectorizeCall(file_size, readable)
                       @@ [app |-> Frame(app.fn, "vectorize",
                                         app.trace \o Close(saving, "ok")
                                                   \o <<Stage("vectorize", "pending")>>,
                                         image, PyNone)],
              step |-> vectorize_image(VectorizeCall(file_size, readable)),
              disk |-> SaveImage(d, image, save)]

\* create_svg_preview_html(svg_path) (lines 305-364): a preview that embeds
\* the file's text, or an error box.
create_svg_preview_html(svg_path, d) ==
    LET found == {f \in d.files : f[1] = AbsPath(svg_path)}
        svg_content == (CHOOSE f \in found : TRUE)[2]
    IN  IF found = {} THEN [t |-> "html", error |-> "SVG file not found"]
        ELSE IF svg_content = <<>> THEN [t |-> "html", error |-> "SVG file is empty"]
        ELSE IF ~StartsWith(Strip(svg_content), <<"<", "s", "v", "g">>)
                /\ ~Contains(FirstN(svg_content, 100), <<"<", "?", "x", "m", "l">>)
        THEN [t |-> "html", error |-> "File does not appear to be a valid SVG"]
        ELSE [t |-> "html", error |-> "none", svg |-> svg_content]

\* The mutant takes the file for downloaded whatever download_svg returned.
process_image_internal_downloaded_unchecked(svg_url, r, d) ==
    IF r.kind = "raise" THEN AppHandler("process_image_internal", r)
    ELSE ProcessResult(PyStr(s_output_path), create_svg_preview_html(s_output_path, d),
                       SuccessMessage(svg_url))

\* process_image_internal from the return of download_svg to its own return
\* (lines 262-304).
process_image_internal_downloaded(svg_url, r, d) ==
    IF r.kind = "raise" THEN AppHandler("process_image_internal", r)
    ELSE IF ~r.val THEN Failure("Failed to download SVG from URL: {}")
    ELSE ProcessResult(PyStr(s_output_path), create_svg_preview_html(s_output_path, d),
                       SuccessMessage(svg_url))

\* ProgressWrapper() (lines 84-88): a callable that moves the progress bar.
ProgressWrapper == Sink("ok")

\* The adapter's generate_image up to its first suspension point.
AdapterStart(c, rs) ==
    CASE c.adapter = "Replicate" -> Replicate_generate_image(c, rs)
      [] c.adapter = "Fal.ai" -> Fal_generate_image(c, rs)
      [] c.adapter = "OpenAI" -> OpenAI_generate_image(c, rs)

InApp == "app" \in DOMAIN call

\* generate_and_process_image(prompt, aspect_ratio, magic_prompt_option,
\* style_type, provider_name) up to the first suspension point of the
\* generation (lines 45-108).
GenerateAndProcessImage(prompt, aspect_ratio, magic_prompt_option, style_type, provider_name) ==
    /\ CanCall
    /\ updates' = 0
    /\ LET fn == "generate_and_process_image"
           refused(text) ==
               /\ call' = [op |-> fn, app |-> Frame(fn, "end", <<>>, PyNone, PyNone)]
               /\ Apply(Done(Return(GenerateResult(PyNone, Failure(text))), <<>>, <<>>))
               /\ UNCHANGED <<config, disk>>
           app == Frame(fn, "generate", <<Stage("generate", "pending")>>, PyNone, PyNone)
           mapped_provider == provider_map(provider_name)
           provider == get_provider(mapped_provider)
       IN  IF ~Truthy(openai_api_key) /\ ~Truthy(replicate_api_key) /\ ~Truthy(fal_api_key)
           THEN refused("No API provider configured!")
           ELSE IF PromptBlank(prompt) THEN refused("No prompt provided.")
           ELSE IF provider.kind = "raise"
           THEN /\ call' = GenerateCall("facade", mapped_provider, "none", prompt, aspect_ratio,
                                        magic_prompt_option, style_type, ProgressWrapper, TRUE)
                           @@ [app |-> app]
                /\ Apply(Done(provider, <<>>, <<>>))
                /\ UNCHANGED <<config, disk>>
           ELSE \E installed \in (IF provider.val = "Replicate" THEN {TRUE} ELSE BOOLEAN),
                   rs \in RaiseChoices(ProgressWrapper) :
                  LET c == GenerateCall("facade", mapped_provider, provider.val, prompt,
                                        aspect_ratio, magic_prompt_option, style_type,
                                        ProgressWrapper, installed)
                      s == AdapterStart(c, rs)
                  IN  /\ call' = c @@ [app |-> app]
                      /\ Apply(s)
                      /\ environ' = IF s.pc = "fal_subscribe" THEN FalSetEnviron(environ)
                                    ELSE environ
                      /\ UNCHANGED <<Globals, disk>>

\* The step of process_image_internal that follows from its start.
EnterProcess(app, image) ==
    \E save \in SaveOutcomes, file_size \in FileSizes, readable \in BOOLEAN :
       LET p == process_image_internal(app, image, disk, save, file_size, readable)
       IN  /\ call' = p.call
           /\ Apply(p.step)
           /\ disk' = p.disk

\* generate_and_process_image from the return of generate_image to the
\* upload of process_image_internal (lines 100-127).
AppGenerated ==
    /\ pc = "done"
    /\ InApp
    /\ call.app.stage = "generate"
    /\ IF result.kind = "raise"
       THEN /\ call' = [op |-> call.app.fn,
                        app |-> [call.app EXCEPT !.stage = "end", !.trace = Close(@, "failed")]]
            /\ Apply(Done(Return(GenerateResult(PyNone, AppHandler(call.app.fn, result))),
                          netlog, sinklog))
            /\ disk' = disk
       ELSE EnterProcess([call.app EXCEPT !.trace = Close(@, "ok")], result.val)
    /\ UNCHANGED <<config, updates>>

\* The images the interface can hand to process_image: none, or an image of
\* some width and height.
UploadSizes == {<<100, 100>>, <<4001, 100>>, <<2000, 2000>>}
UploadedImages ==
    {PyNone} \cup {[t |-> "Image", format |-> "PNG", data |-> <<1>>, size |-> s] : s \in UploadSizes}

MAX_DIMENSION == 4000
MAX_SIZE_MB == 10

\* process_image(image) (lines 141-167) up to the upload.
ProcessImage(image) ==
    /\ CanCall
    /\ updates' = 0
    /\ LET fn == "process_image"
           width == image.size[1]
           height == image.size[2]
       IN  IF image # PyNone
              /\ (\/ width > MAX_DIMENSION \/ height > MAX_DIMENSION
                  \/ width * height * 3 > MAX_SIZE_MB * 1024 * 1024)
           THEN /\ call' = [op |-> fn, app |-> Frame(fn, "end", <<>>, image, PyNone)]
                /\ Apply(Done(Return(Failure("Image is too large.")), <<>>, <<>>))
                /\ disk' = disk
           ELSE EnterProcess(Frame(fn, "process", <<>>, image, PyNone), image)
    /\ UNCHANGED config

\* process_image_internal from the return of vectorize_image to the GET of
\* download_svg (lines 250-260).
AppVectorized ==
    /\ pc = "done"
    /\ InApp
    /\ call.app.stage = "vectorize"
    /\ IF result.kind = "raise"
       THEN /\ call' = [op |-> call.app.fn,
                        app |-> [call.app EXCEPT !.stage = "end", !.trace = Close(@, "failed")]]
            /\ Apply(Done(AppReturn(call.app, AppHandler("process_image_internal", result)),
                          netlog, sinklog))
       ELSE LET c == DownloadCall(result.val, disk)
            IN  /\ call' = c @@ [app |-> [call.app EXCEPT
                                            !.stage = "download",
                                            !.svg_url = result.val,
                                            !.trace = Close(@, "ok")
                                                      \o <<Stage("download", "pending")>>]]
                /\ Apply(download_svg(c))
    /\ UNCHANGED <<config, updates, disk>>

\* process_image_internal from the return of download_svg to its own return
\* (lines 260-304), and the return of generate_and_process_image (line 126).
AppDownloaded ==
    /\ pc = "done"
    /\ InApp
    /\ call.app.stage = "download"
    /\ LET r == process_image_internal_downloaded(call.app.svg_url, result, disk)
       IN  /\ call' = [op |-> call.app.fn,
                       app |-> [call.app EXCEPT
                                  !.stage = "end",
                                  !.trace = Close(@, IF result.kind = "return" /\ result.val
                                                     THEN "ok" ELSE "failed")]]
           /\ Apply(Done(AppReturn(call.app, r), netlog, sinklog))
    /\ UNCHANGED <<config, updates, disk>>

\* The interface shows the result.
AppFinish ==
    /\ InApp
    /\ call.app.stage = "end"
    /\ Finish

AppPrompts == {PyStr(<<>>), PyStr(s_prompt)}
AppProviderNames == {PyNone, PyStr(s_Auto), PyStr(s_Replicate)}

\* Every value of the vectorization credential and of the Replicate
\* credential, the other adapters unconfigured; the output directories exist.
InitApp ==
    \E env \in [EnvKeys -> CredValues] :
       /\ env["FAL_KEY"] = PyNone
       /\ env["OPENAI_API_KEY"] = PyNone
       /\ environ = env
       /\ REPLICATE_API_KEY = env["REPLICATE_API_TOKEN"]
       /\ FAL_API_KEY = env["FAL_KEY"]
       /\ OPENAI_API_KEY = env["OPENAI_API_KEY"]
       /\ api_key = env["RECRAFT_API_TOKEN"]
       /\ call = Idle
       /\ pc = "idle"
       /\ netlog = <<>>
       /\ sinklog = <<>>
       /\ updates = 0
       /\ disk = [dirs |-> {<<"/">>, s_cwd} \cup OutputDirs, files |-> {}]
       /\ result = NoResult

NextApp ==
    \/ \E prompt \in AppPrompts, provider_name \in AppProviderNames :
         GenerateAndProcessImage(prompt, PyStr(s_1_1), PyStr(s_Auto), PyStr(s_auto),
                                 provider_name)
    \/ \E image \in UploadedImages : ProcessImage(image)
    \/ ReplicateRunReturns
    \/ ReplicateGetReturns
    \/ AppGenerated
    \/ VectorizePostReturns
    \/ AppVectorized
    \/ DownloadSvgGetReturns
    \/ AppDownloaded
    \/ AppFinish

\* The two functions of the interface, over the Replicate adapter.
SpecApp == InitApp /\ [][NextApp]_vars

(***************************************************************************)
(* Properties.                                                             *)
(***************************************************************************)
\* How an outcome is classified.  The code raises ValueError for every kind
\* of error; the kind is told by what the error says and what it wraps.
Raised(r) == r.kind = "raise"
Returned(r) == r.kind = "return"

CredentialName(p) ==
    CASE p = "Replicate" -> "REPLICATE_API_TOKEN"
      [] p = "Fal.ai" -> "FAL_KEY"
      [] p = "OpenAI" -> "OPENAI_API_KEY"

\* A configuration error of adapter p: says the credential was not found and
\* names the environment variable to set.
IsConfigurationError(r, p) ==
    /\ Raised(r)
    /\ r.exc = "ValueError"
    /\ r.cause = NoCause
    /\ {"not", "found.", CredentialName(p)} \subseteq Range(r.msg)

\* A validation error about the prompt.
IsPromptError(r) ==
    /\ Raised(r)
    /\ r.exc = "ValueError"
    /\ r.cause = NoCause
    /\ {"Prompt", "empty."} \subseteq Range(r.msg)

\* The exceptions an error carries: its own and those of its causes.
RECURSIVE ExcChain(_)
ExcChain(e) ==
    IF e = NoCause THEN {}
    ELSE {e.exc} \cup (IF "cause" \in DOMAIN e THEN ExcChain(e.cause) ELSE {})

Generating == call.op = "generate_image"
ViaFacade == Generating /\ call.via = "facade"
Direct == Generating /\ call.via = "adapter"
Configured == {p \in Providers : is_configured(p)}
Fractions == [i \in DOMAIN sinklog |-> sinklog[i][1]]

\* The adapter a provider name designates, whatever its letter case.
Designated(provider_name) ==
    IF ~IsStr(provider_name) THEN "none"
    ELSE CASE Lower(provider_name.v) = s_replicate -> "Replicate"
           [] Lower(provider_name.v) = s_fal -> "Fal.ai"
           [] Lower(provider_name.v) = s_openai -> "OpenAI"
           [] OTHER -> "none"

Priority == <<"OpenAI", "Replicate", "Fal.ai">>
FirstConfigured == Priority[CHOOSE i \in 1..3 : /\ Priority[i] \in Configured
                                                 /\ \A j \in 1..(i - 1) : Priority[j] \notin Configured]

Selected(provider_name) ==
    IF Designated(provider_name) \in Configured THEN Designated(provider_name)
    ELSE FirstConfigured

C2_NoneConfigured ==
    (Configured = {} /\ (call.op = "get_provider" \/ ViaFacade)) =>
        /\ pc = "done"
        /\ Raised(result)
        /\ result.exc = "ValueError"
        /\ {"OPENAI_API_KEY", "REPLICATE_API_TOKEN", "FAL_KEY"} \subseteq Range(result.msg)
        /\ netlog = <<>>
        /\ sinklog = <<>>
        /\ ViaFacade => call.adapter = "none"

C2_Witness ==
    /\ Configured = {}
    /\ ViaFacade
    /\ call.progress = Sink("ok")
    /\ ~PromptBlank(call.prompt)
    /\ Raised(result)
    /\ "FAL_KEY" \in Range(result.msg)

\* C3: generate_image called on an adapter that is not configured raises that
\* adapter's configuration error whatever the prompt and the other arguments
\* are, sends no request and never invokes the sink.
C3_NotConfigured ==
    (Direct /\ call.adapter \notin Configured) =>
        /\ pc = "done"
        /\ IsConfigurationError(result, call.adapter)
        /\ netlog = <<>>
        /\ sinklog = <<>>

\* An unconfigured adapter was given a whitespace-only prompt and a sink.
C3_Witness ==
    /\ Direct
    /\ call.adapter \notin Configured
    /\ call.prompt = PyStr(s_ws)
    /\ call.progress = Sink("ok")
    /\ IsConfigurationError(result, call.adapter)

EmptyOrWhitespace(prompt) == IsStr(prompt) /\ \A i \in DOMAIN prompt.v : prompt.v[i] \in Whitespace

\* C4: a configured adapter given an empty or whitespace-only prompt raises a
\* validation error about the prompt; no request is sent (with that prompt or
\* any other in its place) and the sink is never invoked.
C4_BlankPrompt ==
    (Generating /\ call.adapter \in Configured /\ EmptyOrWhitespace(call.prompt)) =>
        /\ pc = "done"
        /\ IsPromptError(result)
        /\ netlog = <<>>
        /\ sinklog = <<>>

C4_Witness ==
    /\ Direct
    /\ call.adapter = "Fal.ai"
    /\ call.adapter \in Configured
    /\ call.prompt = PyStr(s_ws)
    /\ call.progress = Sink("ok")
    /\ IsPromptError(result)

\* The exception a settled request failed with.
FailureOf(entry) ==
    IF entry.stage = "generation" THEN entry.reply.exc ELSE GetFailure(entry.reply).exc

\* The bytes the call received for the image: the body of the download, or
\* the decoded inline payload of the OpenAI response.
Downloaded == netlog # <<>> /\ netlog[Len(netlog)].stage = "image_download"
Inline ==
    /\ Generating
    /\ call.adapter = "OpenAI"
    /\ Len(netlog) = 1
    /\ netlog[1].status = "ok"
    /\ netlog[1].reply.response.data.t = "list"
    /\ Len(netlog[1].reply.response.data.v) > 0
    /\ ~Truthy(netlog[1].reply.response.data.v[1].url)
    /\ Truthy(netlog[1].reply.response.data.v[1].b64_json)
InlinePayload == B64Decode(netlog[1].reply.response.data.v[1].b64_json.v)
Undecodable(bytes) == Len(bytes) < 4 \/ SubSeq(bytes, 1, 4) # <<137, 80, 78, 71>>
ImageOf(bytes) == [t |-> "Image", format |-> "PNG", data |-> SubSeq(bytes, 5, Len(bytes))]

IsGenerationError(r, p) ==
    /\ Raised(r)
    /\ ~IsConfigurationError(r, p)
    /\ ~IsPromptError(r)

NeverRaises == [i \in 1..3 |-> FALSE]
Reference ==
    LET c == [call EXCEPT !.progress = Sink("ok")]
        s1 == CASE c.adapter = "Replicate" -> Replicate_generate_image(c, NeverRaises)
                [] c.adapter = "Fal.ai" -> Fal_generate_image(c, NeverRaises)
                [] c.adapter = "OpenAI" -> OpenAI_generate_image(c, NeverRaises)
        r1 == netlog[1].reply
        s2 == CASE s1.pc = "replicate_run" ->
                     Replicate_run_returns(c, s1.netlog, s1.sinklog, r1, NeverRaises)
                [] s1.pc = "fal_subscribe" /\ netlog[1].status = "aborted" ->
                     LET u == on_queue_update(r1, c.progress, s1.sinklog, NeverRaises)
                     IN  IF u.raised # NoCause
                         THEN Done(Reraise(u.raised), s1.netlog, u.log)
                         ELSE Going("fal_subscribe", s1.netlog, u.log)
                [] s1.pc = "fal_subscribe" /\ netlog[1].status # "aborted" ->
                     Fal_subscribe_returns(c, s1.netlog, s1.sinklog, r1, NeverRaises)
                [] s1.pc = "openai_generate" ->
                     OpenAI_generate_returns(c, s1.netlog, s1.sinklog, r1, NeverRaises)
        r2 == netlog[2].reply
        s3 == CASE s2.pc = "replicate_get" ->
                     Replicate_get_returns(c, s2.netlog, s2.sinklog, r2, NeverRaises)
                [] s2.pc = "fal_get" ->
                     Fal_get_returns(c, s2.netlog, s2.sinklog, r2, NeverRaises)
                [] s2.pc = "openai_get" ->
                     OpenAI_get_returns(c, s2.netlog, s2.sinklog, r2, NeverRaises)
                [] OTHER -> s2
    IN  IF s1.pc = "done" THEN s1 ELSE IF s2.pc = "done" THEN s2 ELSE s3

\* C6: whether the sink is missing, not callable, or raises when invoked, the
\* call ends as the same call with a well-behaved sink ends: the same image
\* or the same error, after the same requests; what the sink raises is never
\* the error of the call nor part of it.
C6_SinkNeverDecides ==
    (Generating /\ pc = "done" /\ call.adapter \in Providers) =>
        /\ result = Reference.result
        /\ [i \in DOMAIN netlog |-> netlog[i].req]
             = [i \in DOMAIN Reference.netlog |-> Reference.netlog[i].req]
        /\ Raised(result) => "SinkError" \notin ExcChain(result)

\* A sink that raises on every invocation was invoked and the image came back.
C6_Witness ==
    /\ Generating
    /\ pc = "done"
    /\ call.progress = Sink("raises")
    /\ sinklog # <<>>
    /\ Returned(result)

\* C7: with a callable sink, a call that returns has reported 1.0 and 1.0 is
\* the last fraction reported; a call that fails never reports 1.0 (no
\* fraction 1.0 is in the sink's log while the call runs or after it raised).
C7_Completion ==
    Generating =>
        /\ (pc = "done" /\ Returned(result) /\ Callable(call.progress)) =>
              /\ sinklog # <<>>
              /\ Fractions[Len(sinklog)] = 10
        /\ \A i \in DOMAIN sinklog :
              Fractions[i] = 10 => /\ pc = "done"
                                   /\ Returned(result)
                                   /\ i = Len(sinklog)

\* The download failed after progress had been reported, and 1.0 was not.
C7_Witness ==
    /\ Generating
    /\ pc = "done"
    /\ call.adapter = "Replicate"
    /\ Callable(call.progress)
    /\ Raised(result)
    /\ Len(netlog) = 2
    /\ Fractions = <<2, 7>>

\* C8: when Replicate is the only configured adapter, a call that returns has
\* shown its sink exactly the fractions 0.2, 0.7, 1.0 in that order, and the
\* backend was called with seed 0 and, for style 'auto', with style 'Auto'.
C8_ReplicateOnly ==
    (Generating /\ pc = "done" /\ Returned(result) /\ Configured = {"Replicate"}) =>
        /\ Callable(call.progress) => Fractions = <<2, 7, 10>>
        /\ netlog[1].stage = "generation"
        /\ netlog[1].req.seed = 0
        /\ call.style_type = PyStr(s_auto) => netlog[1].req.style_type = PyStr(s_Auto)

C8_Witness ==
    /\ ViaFacade
    /\ pc = "done"
    /\ Returned(result)
    /\ Configured = {"Replicate"}
    /\ call.provider_name = PyNone
    /\ call.style_type = PyStr(s_auto)
    /\ call.progress = Sink("ok")
    /\ Fractions = <<2, 7, 10>>
    /\ netlog[1].reply.output = PyStr(s_url1)

\* C9: nothing is retried.  Within one invocation of generate_image,
\* vectorize_image or download_svg each network stage is attempted at most
\* once, and a failed stage is the last request of the invocation: the
\* failure is reported to the caller in the same step.
C9_NoRetry ==
    /\ \A i, j \in DOMAIN netlog : netlog[i].stage = netlog[j].stage => i = j
    /\ \A i \in DOMAIN netlog :
          netlog[i].status \in {"failed", "aborted"} => /\ i = Len(netlog)
                                                        /\ pc = "done"
    /\ \A i \in DOMAIN netlog : netlog[i].status = "pending" => i = Len(netlog)

\* The upload to the vectorizer failed and nothing else was sent.
C9_Witness ==
    /\ call.op = "vectorize_image"
    /\ pc = "done"
    /\ Len(netlog) = 1
    /\ netlog[1].stage = "vectorize_upload"
    /\ netlog[1].status = "failed"
    /\ Raised(result)

\* C10: with the vectorization credential present, vectorize_image of a path
\* to a file that does not exist raises a not-found error before any request,
\* whatever the extension of the path; with the credential absent it raises a
\* configuration error, again before any request.
C10_VectorizeEntry ==
    call.op = "vectorize_image" =>
        /\ ~Truthy(api_key) =>
              /\ pc = "done"
              /\ Raised(result)
              /\ result.exc = "ValueError"
              /\ "RECRAFT_API_TOKEN" \in Range(result.msg)
              /\ netlog = <<>>
        /\ (Truthy(api_key) /\ Truthy(call.image_path) /\ IsStr(call.image_path)
               /\ ~call.exists) =>
              /\ pc = "done"
              /\ Raised(result)
              /\ result.exc = "FileNotFoundError"
              /\ netlog = <<>>

\* A missing file with an extension the vectorizer does not accept.
C10_Witness ==
    /\ call.op = "vectorize_image"
    /\ Truthy(api_key)
    /\ call.image_path = PyStr(s_in_txt)
    /\ ~call.exists
    /\ result.exc = "FileNotFoundError"

\* The vectorization call got past the credential check with a path to an
\* existing file.
VectorizingExisting ==
    /\ call.op = "vectorize_image"
    /\ Truthy(api_key)
    /\ IsStr(call.image_path)
    /\ call.image_path.v # <<>>
    /\ call.exists

\* The name ends, whatever its letter case, in a whitelisted raster extension.
Whitelisted(path) ==
    \E ext \in {<<".", "j", "p", "g">>, <<".", "j", "p", "e", "g">>, <<".", "p", "n", "g">>,
                <<".", "g", "i", "f">>, <<".", "b", "m", "p">>, <<".", "t", "i", "f", "f">>,
                <<".", "w", "e", "b", "p">>} :
       EndsWith(Lower(path), ext)

\* A validation error: a ValueError raised by a check, wrapping nothing.
IsValidationError(r, words) ==
    /\ Raised(r)
    /\ r.exc = "ValueError"
    /\ r.cause = NoCause
    /\ words \subseteq Range(r.msg)

Uploads == {i \in DOMAIN netlog : netlog[i].stage = "vectorize_upload"}

\* C11: for an existing file, vectorize_image raises a validation error when
\* the name does not end (case-insensitively) in a whitelisted raster
\* extension and when the file is larger than 50 MB, and then no upload is
\* attempted; a readable file of exactly 50 MB with a whitelisted extension
\* is uploaded.
C11_ExtensionAndSize ==
    VectorizingExisting =>
        /\ ~Whitelisted(call.image_path.v) =>
              /\ pc = "done"
              /\ IsValidationError(result, {"Unsupported", "image", "format."})
              /\ Uploads = {}
        /\ (Whitelisted(call.image_path.v) /\ call.file_size > 50 * 1024 * 1024) =>
              /\ pc = "done"
              /\ IsValidationError(result, {"too", "large:"})
              /\ Uploads = {}
        /\ (Whitelisted(call.image_path.v) /\ call.file_size = 50 * 1024 * 1024
               /\ call.readable) =>
              /\ Uploads = {1}
              /\ netlog[1].req.file = PyStr(AbsPath(call.image_path.v))

\* A file of exactly 50 MB named a.PNG is being uploaded.
C11_Witness ==
    /\ VectorizingExisting
    /\ call.image_path = PyStr(s_in_PNG)
    /\ call.file_size = 50 * 1024 * 1024
    /\ pc = "recraft_post"
    /\ netlog[1].status = "pending"

\* The class of a failed upload.
FailureClass(resp) ==
    CASE resp.exc = "requests.exceptions.ConnectionError" -> "connection"
      [] resp.exc = "requests.exceptions.Timeout" -> "timeout"
      [] resp.exc = "none" /\ resp.status = 401 -> "auth"
      [] resp.exc = "none" /\ resp.status = 429 -> "rate-limit"
      [] resp.exc = "none" /\ resp.status = 400 -> "bad-request"
      [] OTHER -> "other"
FiveClasses == {"connection", "timeout", "auth", "rate-limit", "bad-request"}

\* How this upload would have ended had the backend answered resp.
HadItAnswered(resp) ==
    vectorize_post_returns(<<[netlog[1] EXCEPT !.status = "pending", !.reply = PyNone]>>, resp)

\* C12: when the upload fails with HTTP 401, 429 or 400, a connection error
\* or a timeout, vectorize_image raises an error that wraps the underlying
\* exception and whose message differs from the message of each of the other
\* four classes; it does not return a URL.
C12_UploadFailures ==
    (call.op = "vectorize_image" /\ pc = "done" /\ netlog # <<>>
        /\ FailureClass(netlog[1].reply) \in FiveClasses) =>
        /\ Raised(result)
        /\ result.exc = "ValueError"
        /\ FailureOf(netlog[1]) \in ExcChain(result.cause)
        /\ \A resp \in RecraftResponses :
              (FailureClass(resp) \in FiveClasses
                  /\ FailureClass(resp) # FailureClass(netlog[1].reply)) =>
                     /\ Raised(HadItAnswered(resp).result)
                     /\ HadItAnswered(resp).result.msg # result.msg

\* The upload was answered 429 and the call raised the rate-limit error.
C12_Witness ==
    /\ call.op = "vectorize_image"
    /\ pc = "done"
    /\ netlog # <<>>
    /\ netlog[1].reply.status = 429
    /\ Raised(result)
    /\ "rate" \in Range(result.msg)

\* The upload was answered 2xx with a JSON body.
After2xx ==
    /\ call.op = "vectorize_image"
    /\ pc = "done"
    /\ netlog # <<>>
    /\ netlog[1].status = "ok"
    /\ netlog[1].reply.content # NotJson
Body == netlog[1].reply.content
IsObject(x) == x.t = "dict"
HasImage == IsObject(Body) /\ "image" \in DOMAIN Body.v
HasImageObject == HasImage /\ IsObject(Body.v.image)
HasUrl == HasImageObject /\ "url" \in DOMAIN Body.v.image.v

\* The error names the missing key and lists the keys that were present.
NamesMissingKey(r, key, present) ==
    /\ Raised(r)
    /\ {"missing", key} \subseteq Range(r.msg)
    /\ r.args = <<present>>

Downloading == call.op = "download_svg"
HttpUrl(url) == IsStr(url) /\ (StartsWith(url.v, s_http) \/ StartsWith(url.v, s_https))
EndsInSvg(path) == EndsWith(Lower(path), <<".", "s", "v", "g">>)
Gets == {i \in DOMAIN netlog : netlog[i].stage = "svg_download"}

\* The call was refused by a check: nothing requested, nothing created.
RefusedBeforeGet ==
    /\ pc = "done"
    /\ IsValidationError(result, {})
    /\ Gets = {}
    /\ disk = call.before

\* C14 as stated: a URL that does not start with http:// or https://, or an
\* output path that (as given, in any letter case) does not end in .svg, is
\* refused with a validation error before any GET and without creating any
\* file or directory.
C14_Original ==
    (Downloading /\ (~HttpUrl(call.url) \/ ~IsStr(call.output_path)
                       \/ ~EndsInSvg(call.output_path.v))) =>
        RefusedBeforeGet

\* C14: a URL that does not start with http:// or https://, or an output
\* path whose normalised absolute form (trailing separators dropped) does not
\* end in .svg in any letter case, is refused with a validation error before
\* any GET and without creating any file or directory; a path such as
\* "out/a.svg/" normalises to one that ends in .svg and is not refused.
C14_Validation ==
    Downloading =>
        /\ (~HttpUrl(call.url) \/ ~IsStr(call.output_path)
               \/ ~EndsInSvg(AbsPath(call.output_path.v))) => RefusedBeforeGet
        /\ (HttpUrl(call.url) /\ call.output_path = PyStr(s_out_dir)) =>
              /\ ~Raised(result)
              /\ Gets = {1}

\* A valid URL with an output path ending in .txt was refused.
C14_Witness ==
    /\ Downloading
    /\ HttpUrl(call.url)
    /\ call.output_path = PyStr(s_out_txt)
    /\ RefusedBeforeGet
    /\ "extension" \in Range(result.msg)

\* The GET of a download with valid inputs has been answered.
Answered == Downloading /\ pc = "done" /\ Gets = {1} /\ netlog[1].status # "pending"
Is2xx(resp) == resp.exc = "none" /\ resp.status >= 200 /\ resp.status < 300

\* C15: for valid inputs, when the GET ends in a non-2xx response, a
\* connection error or a timeout, download_svg returns false, does not raise,
\* and leaves the output file and its parent directories as they were before
\* the call.
C15_FailedGet ==
    (Answered /\ ~Is2xx(netlog[1].reply)) =>
        /\ result = Return(FALSE)
        /\ disk = call.before

Target == AbsPath(call.output_path.v)
Others(files) == {f \in files : f[1] # Target}

\* C16: for valid inputs and any 2xx response, whatever its Content-Type and
\* body and whatever the SVG sniff makes of them, download_svg returns true
\* with the parent directories of the output path present and the output
\* file holding exactly the received bytes, provided creating the directories
\* and writing the file succeed; no other file is touched.
C16_Written ==
    (Answered /\ Is2xx(netlog[1].reply) /\ call.io = "ok") =>
        /\ result = Return(TRUE)
        /\ {f \in disk.files : f[1] = Target} = {<<Target, netlog[1].reply.content>>}
        /\ DirName(Target) \in disk.dirs
        /\ call.before.dirs \subseteq disk.dirs
        /\ Others(disk.files) = Others(call.before.files)

\* Plain text served as text/html failed the sniff and was written all the
\* same, into a directory that did not exist before.
C16_Witness ==
    /\ Answered
    /\ netlog[1].reply = Response(200, s_ct_html, TextBytes)
    /\ call.is_svg = PyBool(FALSE)
    /\ DirName(Target) \notin call.before.dirs
    /\ DirName(Target) \in disk.dirs
    /\ <<Target, TextBytes>> \in disk.files
    /\ result = Return(TRUE)

\* A string with something left after trimming whitespace.
NonBlankString(x) == IsStr(x) /\ \E i \in DOMAIN x.v : x.v[i] \notin Whitespace

\* C17: is_configured() of an adapter is true if and only if the adapter's
\* credential is a string that is non-empty after trimming whitespace (an
\* absent credential, the empty string and a whitespace-only string give
\* false); the call sends no request and leaves the credentials, the
\* environment and the disk as they were.
C17_IsConfigured ==
    (call.op = "is_configured" /\ pc = "done") =>
        /\ result = Return(NonBlankString(ApiKey(call.adapter)))
        /\ netlog = <<>>
        /\ sinklog = <<>>
        /\ <<config, disk>> = call.before

\* A whitespace-only credential: not configured.
C17_Witness ==
    /\ call.op = "is_configured"
    /\ pc = "done"
    /\ ApiKey(call.adapter) = PyStr(s_blank)
    /\ result = Return(FALSE)

\* C18: no step of any operation (generate_image of an adapter or of the
\* facade, get_provider, is_configured, vectorize_image, download_svg)
\* changes the credential configuration: the environment's credentials and
\* the credentials read from it stay as they are.  is_configured() and
\* get_provider() read nothing but these, so their results stay as well.
C18_ConfigurationImmutable ==
    [][config' = config]_vars

\* The Fal.ai adapter is past the block that may set FAL_KEY and the
\* environment still holds what it held at import.
C18_Witness ==
    /\ Generating
    /\ call.adapter = "Fal.ai"
    /\ pc = "fal_subscribe"
    /\ environ["FAL_KEY"] = FAL_API_KEY
    /\ FAL_API_KEY = PyStr(s_key)

\* The ratios of the documented table of the OpenAI adapter.
InTable(aspect_ratio) ==
    aspect_ratio \in {PyStr(s_1_1), PyStr(s_3_2), PyStr(s_4_3), PyStr(s_2_3), PyStr(s_3_4)}

OpenAICall == Generating /\ call.adapter = "OpenAI"

\* The request handed to client.images.generate, once there is one.
Sent == netlog[1].req

\* The adapter got as far as the mapping of its parameters.
ReachedMapping ==
    /\ OpenAICall
    /\ pc # "idle"
    /\ Len(sinklog) = (IF Callable(call.progress) THEN 2 ELSE 0)
    /\ call.installed
    /\ EntryCheck("OpenAI", call.prompt).kind # "raise"

\* C19: an OpenAI call whose ratio is outside the table does not fail because
\* of the ratio: having reached the mapping of its parameters it has issued
\* the request, and the request asks for the size auto.
C19_RatioFallback ==
    (ReachedMapping /\ ~InTable(call.aspect_ratio)) =>
        /\ netlog # <<>>
        /\ Sent.size = PyStr(s_auto)

\* The three sizes the OpenAI adapter can ask for.
Sizes == {PySize(<<1024, 1024>>), PySize(<<1536, 1024>>), PySize(<<1024, 1536>>)}

\* The size the documented table gives each of its ratios.
Documented(aspect_ratio) ==
    CASE aspect_ratio = PyStr(s_1_1) -> <<1024, 1024>>
      [] aspect_ratio \in {PyStr(s_3_2), PyStr(s_4_3)} -> <<1536, 1024>>
      [] aspect_ratio \in {PyStr(s_2_3), PyStr(s_3_4)} -> <<1024, 1536>>

\* C20 as documented: the OpenAI adapter maps 1:1 to 1024x1024, 3:2 and 4:3
\* to 1536x1024, 2:3 and 3:4 to 1024x1536.
C20_Original ==
    (ReachedMapping /\ InTable(call.aspect_ratio)) =>
        map_aspect_ratio_to_size(call.aspect_ratio)
            = [t |-> "tuple", v |-> Documented(call.aspect_ratio)]

\* C20: the OpenAI adapter maps 1:1 to 1024x1024, 3:2 to 1536x1024 and 2:3
\* to 1024x1536, and a call with one of these ratios issues its request with
\* that size; 4:3 and 3:4 have no entry of their own and map to no size, as
\* every other ratio does.  The size of a request is one of the three sizes
\* or auto.
C20_SizeTable ==
    /\ ReachedMapping =>
         IF call.aspect_ratio \in {PyStr(s_1_1), PyStr(s_3_2), PyStr(s_2_3)}
         THEN /\ map_aspect_ratio_to_size(call.aspect_ratio)
                    = [t |-> "tuple", v |-> Documented(call.aspect_ratio)]
              /\ netlog # <<>>
              /\ Sent.size = PySize(Documented(call.aspect_ratio))
         ELSE map_aspect_ratio_to_size(call.aspect_ratio) = PyNone
    /\ (OpenAICall /\ netlog # <<>>) => Sent.size \in Sizes \cup {PyStr(s_auto)}

\* A 3:2 call has issued its request, for 1536x1024.
C20_Witness ==
    /\ ReachedMapping
    /\ call.aspect_ratio = PyStr(s_3_2)
    /\ pc = "openai_generate"
    /\ Sent.size = PySize(<<1536, 1024>>)

\* The key a table of the adapters is looked up with.
Key(x) == IF IsStr(x) THEN Lower(x.v) ELSE <<>>

\* C21 as documented: on is high, off is medium, everything else is auto.
C21_Original ==
    (OpenAICall /\ netlog # <<>>) =>
        Sent.quality = PyStr(CASE Key(call.magic_prompt_option) = s_on -> s_high
                               [] Key(call.magic_prompt_option) = s_off -> s_medium
                               [] OTHER -> s_auto)

\* C21: the OpenAI adapter sends as quality the option itself, in lower case,
\* when it is high, medium or low in any letter case, and auto for every
\* other option: on, off, auto, an unknown string, the empty string, None.
C21_Quality ==
    (OpenAICall /\ netlog # <<>>) =>
        Sent.quality = PyStr(IF Key(call.magic_prompt_option) \in {s_high, s_medium, s_low}
                             THEN Key(call.magic_prompt_option)
                             ELSE s_auto)

\* A request went out for the option High, with the quality high.
C21_Witness ==
    /\ OpenAICall
    /\ pc = "openai_generate"
    /\ call.magic_prompt_option = PyStr(s_High)
    /\ Sent.quality = PyStr(s_high)

\* C22: the OpenAI adapter sends the background transparent for the styles
\* none and transparent, opaque for opaque, in any letter case, and auto for
\* every other style; the output format it asks for is always png.
C22_Background ==
    (OpenAICall /\ netlog # <<>>) =>
        /\ Sent.background =
              PyStr(CASE Key(call.style_type) \in {s_none, s_transparent} -> s_transparent
                      [] Key(call.style_type) = s_opaque -> s_opaque
                      [] OTHER -> s_auto)
        /\ Sent.output_format = PyStr(s_png)

\* A request went out for the style none, with a transparent background.
C22_Witness ==
    /\ OpenAICall
    /\ pc = "openai_generate"
    /\ call.style_type = PyStr(s_none)
    /\ Sent.background = PyStr(s_transparent)
    /\ Sent.output_format = PyStr(s_png)

FalCall == Generating /\ call.adapter = "Fal.ai"

\* The result fal_client.subscribe returned, once it has returned one.
Subscribed == FalCall /\ netlog # <<>> /\ netlog[1].status = "ok"
FalResult == netlog[1].reply.result

HasKey(x, k) == x.t = "dict" /\ k \in DOMAIN x.v

\* The URLs of the shapes a result matches, in the order of their priority:
\* {images: [{url}]}, {image: {url}}, {url}, a bare http(s) URL.
MatchingShapes(res) ==
    (IF HasKey(res, "images") /\ res.v.images.t = "list" /\ res.v.images.v # <<>>
        /\ HasKey(res.v.images.v[1], "url") /\ Truthy(res.v.images.v[1].v.url)
     THEN <<res.v.images.v[1].v.url>> ELSE <<>>)
    \o (IF HasKey(res, "image") /\ HasKey(res.v.image, "url") /\ Truthy(res.v.image.v.url)
        THEN <<res.v.image.v.url>> ELSE <<>>)
    \o (IF HasKey(res, "url") /\ Truthy(res.v.url) THEN <<res.v.url>> ELSE <<>>)
    \o (IF IsHttpUrl(res) THEN <<res>> ELSE <<>>)

\* C23: when the backend result matches at least one of the four shapes, the
\* Fal.ai adapter downloads from the URL of the matching shape of highest
\* priority, whatever else the result holds; when it matches none, the call
\* fails with a generation error and nothing is downloaded.
C23_Probing ==
    Subscribed =>
        IF MatchingShapes(FalResult) # <<>>
        THEN /\ Len(netlog) = 2
             /\ netlog[2].req.url = MatchingShapes(FalResult)[1]
        ELSE /\ Len(netlog) = 1
             /\ IsGenerationError(result, "Fal.ai")

\* The entries the sink received from on_queue_update: those after the two
\* the adapter reports before it calls the backend.
Forwarded == SubSeq(sinklog, 3, Len(sinklog))

\* C24: during a Fal.ai call every log entry forwarded to the sink goes at a
\* fraction inside [0.4, 0.6], and no queue update ends the call: the call
\* goes on until the backend has answered.
C24_LogUpdates ==
    FalCall =>
        /\ pc = "fal_subscribe" =>
             \A i \in DOMAIN Forwarded : Forwarded[i][1] >= 4 /\ Forwarded[i][1] <= 6
        /\ netlog # <<>> => netlog[1].status # "aborted"

\* The request handed to fal_client.subscribe, once there is one.
Submitted == netlog[1].req

\* C25: the request the Fal.ai adapter submits has the image size of the
\* ratio's table entry and square_hd for every other ratio, expands the
\* prompt exactly for the options auto and on in any letter case, has the
\* style of the style's table entry in any letter case and AUTO for none and
\* for every other style, and asks for one image at the speed BALANCED.
C25_FalRequest ==
    (FalCall /\ netlog # <<>>) =>
        /\ Submitted.image_size =
              PyStr(CASE call.aspect_ratio = PyStr(s_1_1) -> s_square_hd
                      [] call.aspect_ratio = PyStr(s_16_9) -> s_landscape_16_9
                      [] call.aspect_ratio = PyStr(s_9_16) -> s_portrait_16_9
                      [] call.aspect_ratio = PyStr(s_4_3) -> s_landscape_4_3
                      [] call.aspect_ratio = PyStr(s_3_4) -> s_portrait_4_3
                      [] OTHER -> s_square_hd)
        /\ Submitted.expand_prompt = (Key(call.magic_prompt_option) \in {s_auto, s_on})
        /\ Submitted.style =
              PyStr(CASE Key(call.style_type) = s_general -> s_GENERAL
                      [] Key(call.style_type) = s_realistic -> s_REALISTIC
                      [] Key(call.style_type) = s_design -> s_DESIGN
                      [] OTHER -> s_AUTO)
        /\ Submitted.num_images = 1
        /\ Submitted.rendering_speed = "BALANCED"
        /\ Submitted.prompt = call.prompt

\* A request went out for 4:3, an unknown option and the style General.
C25_Witness ==
    /\ FalCall
    /\ pc = "fal_subscribe"
    /\ call.aspect_ratio = PyStr(s_4_3)
    /\ call.magic_prompt_option = PyStr(s_sepia)
    /\ call.style_type = PyStr(s_General)
    /\ Submitted.image_size = PyStr(s_landscape_4_3)
    /\ Submitted.expand_prompt = FALSE
    /\ Submitted.style = PyStr(s_GENERAL)

ReplicateCall == Generating /\ call.adapter = "Replicate"

\* The output replicate_client.run returned, once it has returned one.
Ran == ReplicateCall /\ netlog # <<>> /\ netlog[1].status = "ok"
Output == netlog[1].reply.output

\* The URL of an output: the first element of a non-empty list, a non-empty
\* string itself, nothing for any other output.
Picked(output) ==
    IF output.t = "list" /\ output.v # <<>> THEN <<output.v[1]>>
    ELSE IF output.t = "str" /\ output.v # <<>> THEN <<output>>
    ELSE <<>>

\* A generation error about the download that names the URL.
NamesUrl(r, url) ==
    /\ IsGenerationError(r, "Replicate")
    /\ "download" \in Range(r.msg)
    /\ r.args = <<url>>
    /\ r.cause # NoCause

\* C26: the Replicate adapter takes the first element of a non-empty list or
\* a non-empty string as the URL and fetches it with one GET, whose failure
\* is a generation error that names the URL; for every other output it fails
\* with the generation error "unexpected response format" and fetches nothing.
C26_Normalization ==
    Ran =>
        IF Picked(Output) = <<>>
        THEN /\ Len(netlog) = 1
             /\ IsGenerationError(result, "Replicate")
             /\ {"Unexpected", "response", "format"} \subseteq Range(result.msg)
        ELSE \/ /\ Len(netlog) = 2
                /\ netlog[2].stage = "image_download"
                /\ netlog[2].req.url = Picked(Output)[1]
                /\ netlog[2].status = "failed" => NamesUrl(result, Picked(Output)[1])
             \/ /\ Len(netlog) = 1
                /\ ~IsHttpUrl(Picked(Output)[1])
                /\ NamesUrl(result, Picked(Output)[1])

\* The output was a list of two URLs and the GET of the first one failed.
C26_Witness ==
    /\ Ran
    /\ pc = "done"
    /\ Output = PyList(<<PyStr(s_url2), PyStr(s_url1)>>)
    /\ Len(netlog) = 2
    /\ netlog[2].req.url = PyStr(s_url2)
    /\ netlog[2].status = "failed"
    /\ NamesUrl(result, PyStr(s_url2))

\* The request handed to replicate_client.run, once there is one.
Input == netlog[1].req

\* C27: the request the Replicate adapter issues carries the caller's ratio
\* and option as they are, the seed 0, and the style of the table entry of
\* the caller's style in any letter case, Auto for every other style.
C27_ReplicateRequest ==
    (ReplicateCall /\ netlog # <<>>) =>
        /\ Input.aspect_ratio = call.aspect_ratio
        /\ Input.magic_prompt_option = call.magic_prompt_option
        /\ Input.prompt = call.prompt
        /\ Input.seed = 0
        /\ Input.style_type =
              PyStr(CASE Key(call.style_type) = s_general -> s_General
                      [] Key(call.style_type) = s_realistic -> s_Realistic
                      [] Key(call.style_type) = s_design -> s_Design
                      [] Key(call.style_type) = s_none -> s_None
                      [] OTHER -> s_Auto)

\* A request went out for the option Off and the style None.
C27_Witness ==
    /\ ReplicateCall
    /\ pc = "replicate_run"
    /\ call.magic_prompt_option = PyStr(s_Off)
    /\ call.style_type = PyStr(s_None)
    /\ Input.magic_prompt_option = PyStr(s_Off)
    /\ Input.style_type = PyStr(s_None)
    /\ Input.seed = 0

\* The response client.images.generate returned, once it has returned one.
Generated == OpenAICall /\ netlog # <<>> /\ netlog[1].status = "ok"
Items == netlog[1].reply.response.data
First == Items.v[1]
HasItems == Items.t = "list" /\ Items.v # <<>>

\* C28: when the first data item has a non-empty URL the OpenAI adapter
\* downloads the image from it and what it returns is decoded from the
\* downloaded bytes, a failed download being a generation error whatever the
\* inline payload is; otherwise, when the item has a non-empty inline
\* payload, it decodes the payload and sends no request; when the item has
\* neither, or there is no item, the call fails with a generation error.
C28_ResponseShape ==
    Generated =>
        IF HasItems /\ Truthy(First.url)
        THEN /\ Len(netlog) = 2
             /\ netlog[2].stage = "image_download"
             /\ netlog[2].req.url = First.url
             /\ netlog[2].status = "failed" => IsGenerationError(result, "OpenAI")
             /\ Returned(result) =>
                   /\ netlog[2].status = "ok"
                   /\ result.val = ImageOf(netlog[2].reply.content)
        ELSE IF HasItems /\ Truthy(First.b64_json)
        THEN /\ Len(netlog) = 1
             /\ pc = "done"
             /\ IF Returned(InlinePayload) /\ ~Undecodable(InlinePayload.val)
                THEN result = Return(ImageOf(InlinePayload.val))
                ELSE IsGenerationError(result, "OpenAI")
        ELSE /\ Len(netlog) = 1
             /\ pc = "done"
             /\ IsGenerationError(result, "OpenAI")

\* The item had a URL and a payload that decodes; the download failed and
\* so did the call.
C28_Witness ==
    /\ Generated
    /\ pc = "done"
    /\ HasItems
    /\ First.url = PyStr(s_url1)
    /\ First.b64_json = PyStr(s_b64_png)
    /\ netlog[2].status = "failed"
    /\ Raised(result)

\* C29: in every generate_image call, ended or not, every fraction the sink
\* was given lies in [0, 1], the first one is 0.2, and the fractions never
\* decrease, the ones of forwarded Fal.ai log entries included.  (Fractions
\* are counted in tenths.)
C29_Fractions ==
    Generating =>
        /\ \A i \in DOMAIN Fractions : Fractions[i] >= 0 /\ Fractions[i] <= 10
        /\ Fractions # <<>> => Fractions[1] = 2
        /\ \A i, j \in DOMAIN Fractions : i < j => Fractions[i] <= Fractions[j]

\* A Fal.ai call returned its image after a forwarded log entry.
C29_Witness ==
    /\ Generating
    /\ call.adapter = "Fal.ai"
    /\ pc = "done"
    /\ Returned(result)
    /\ Fractions = <<2, 4, 5, 6, 7, 7, 10>>


\* The stages of the orchestration, in the order the functions reach them.
StageRank(stage) ==
    CASE stage = "generate" -> 1
      [] stage = "save" -> 2
      [] stage = "vectorize" -> 3
      [] stage = "download" -> 4

Trace == call.app.trace

Started(stage) == \E i \in DOMAIN Trace : Trace[i].stage = stage

\* The stage is the last one started.
Running(stage) == Trace # <<>> /\ Trace[Len(Trace)].stage = stage

Succeeded(stage) == \E i \in DOMAIN Trace : Trace[i] = Stage(stage, "ok")

AppReturned == InApp /\ pc = "done" /\ call.app.stage = "end"

\* A stage failed, or process_image_internal did not come to the download.
StageFailed == (\E i \in DOMAIN Trace : Trace[i].outcome = "failed") \/ ~Succeeded("download")

\* C30: in generate_and_process_image and process_image_internal the stages
\* run in the order generation, save/validate, vectorization upload, SVG
\* download.  vectorize_image is called (and the upload sent) only with an
\* image, returned by generate_image or uploaded, and with the vectorization
\* credential present; download_svg is called (and the SVG requested) only with
\* the URL vectorize_image returned; after a stage that failed, or a download_svg
\* that returned false, no other stage starts, and the function returns no SVG
\* path and no preview but an error message.
C30_StageOrder ==
    InApp =>
        /\ \A i, j \in DOMAIN Trace : i < j => StageRank(Trace[i].stage) < StageRank(Trace[j].stage)
        /\ \A i \in DOMAIN Trace : i < Len(Trace) => Trace[i].outcome = "ok"
        /\ (call.op = "generate_image" \/ \E i \in DOMAIN netlog : netlog[i].stage \in {"generation", "image_download"})
              => Running("generate")
        /\ (call.op = "vectorize_image" \/ \E i \in DOMAIN netlog : netlog[i].stage = "vectorize_upload")
              => Running("vectorize")
        /\ (call.op = "download_svg" \/ \E i \in DOMAIN netlog : netlog[i].stage = "svg_download")
              => Running("download")
        /\ Started("vectorize") =>
              /\ Truthy(recraft_api_key)
              /\ call.app.image # PyNone
              /\ call.app.image.t = "Image"
              /\ Succeeded("save")
              /\ call.app.fn = "generate_and_process_image" => Succeeded("generate")
        /\ Started("download") =>
              /\ Succeeded("vectorize")
              /\ IsStr(call.app.svg_url)
              /\ call.op = "download_svg" => call.url = call.app.svg_url
        /\ (AppReturned /\ StageFailed) =>
              /\ result.kind = "return"
              /\ result.val.svg_path = PyNone
              /\ result.val.svg_html = PyNone
              /\ result.val.message.level = "error"

\* generate_and_process_image has generated, saved and vectorized, the SVG
\* was answered but could not be written, download_svg returned false, and
\* the function has returned.
C30_Witness ==
    /\ AppReturned
    /\ call.app.fn = "generate_and_process_image"
    /\ Trace = <<Stage("generate", "ok"), Stage("save", "ok"), Stage("vectorize", "ok"),
                 Stage("download", "failed")>>
    /\ netlog # <<>>
    /\ netlog[Len(netlog)].stage = "svg_download"
    /\ netlog[Len(netlog)].status = "ok"
    /\ result.val.svg_path = PyNone

====
